---- MODULE Spec2Model ----
(***************************************************************************)
(* Verification model of the network-interface device subresource          *)
(* (virtualdevice package) and of the clone workflow (vmworkflow package)   *)
(* of terraform-provider-vsphere.                                           *)
(*                                                                          *)
(* Specifications:                                                          *)
(*   SpecAssign  repeated PCI slot allocation on one controller             *)
(*   SpecClone   clone-source validation and clone-spec construction        *)
(*   Spec        reconcile passes over existing and new network interfaces, *)
(*               each followed by the remote apply and a refresh            *)
(*   SpecFresh   one reconcile pass creating up to MaxFresh interfaces      *)
(*   SpecSub     Read, Update, Delete and Create of one entry on one list,  *)
(*               and Update after Read, Read after Create                   *)
(*   SpecDrift   reconcile passes after a device was removed remotely       *)
(*   SpecBasic   creation of a machine with disks and interfaces            *)
(*   SpecReuse   one reconcile pass dropping interfaces and creating new    *)
(*               ones on a bus of up to ten interfaces                      *)
(***************************************************************************)
EXTENDS Integers, Sequences, FiniteSets, TLC

VARIABLES aL, aCtlr, aRes, aCount,     \* SpecAssign
          cIn, cRes,                     \* SpecClone
          rInv, rL, rOld, rNew, rSpecs,  \* Spec, SpecFresh
          rPc, rDel, rIdx, rErr, rPass, rLast,
          sL, sOld, sNew, sRes           \* SpecSub

assignVars == <<aL, aCtlr, aRes, aCount>>

cloneVars == <<cIn, cRes>>

recVars == <<rInv, rL, rOld, rNew, rSpecs, rPc, rDel, rIdx, rErr, rPass,
             rLast>>

subVars == <<sL, sOld, sNew, sRes>>

vars == <<aL, aCtlr, aRes, aCount, cIn, cRes, rInv, rL, rOld, rNew, rSpecs,
          rPc, rDel, rIdx, rErr, rPass, rLast, sL, sOld, sNew, sRes>>

(***************************************************************************)
(* Generic helpers                                                          *)
(***************************************************************************)
MinOf(S) == CHOOSE x \in S : \A y \in S : x <= y

SeqsUpTo(S, n) == UNION {[1..k -> S] : k \in 0..n}

(***************************************************************************)
(* Device records.  A nil pointer (UnitNumber, ResourceAllocation) is the   *)
(* empty sequence, a set pointer the one-element sequence of its value.     *)
(***************************************************************************)
NoUnit == <<>>

NoAlloc == <<>>

NilRef == "nil"

NoBacking == [kind |-> "none", id |-> NilRef]

\* The zero value of a device of the given concrete type.
NewDevice(type) ==
    [key |-> 0, controllerKey |-> 0, unitNumber |-> NoUnit, type |-> type,
     backing |-> NoBacking, addressType |-> "", macAddress |-> "",
     alloc |-> NoAlloc, connected |-> FALSE]

(***************************************************************************)
(* assignEthernetCard                                                       *)
(***************************************************************************)
PciDeviceOffset == 7

PciUnitCount == 10

\* The loop condition of lines 464-470 without the controller test: every
\* device in the window counts, whatever controller it sits on.
AssignSkipsAnyController(d, ckey) ==
    \/ d.unitNumber = NoUnit
    \/ d.unitNumber[1] < PciDeviceOffset
    \/ d.unitNumber[1] >= PciDeviceOffset + PciUnitCount

\* The loop condition with a window one slot short: unit 16 is not counted.
AssignSkipsShortWindow(d, ckey) ==
    \/ d.controllerKey # ckey
    \/ d.unitNumber = NoUnit
    \/ d.unitNumber[1] < PciDeviceOffset
    \/ d.unitNumber[1] >= PciDeviceOffset + PciUnitCount - 1

\* The loop condition of lines 464-470: a device is skipped unless it sits
\* on the controller and its unit number lies inside the window.
AssignSkips(d, ckey) ==
    \/ d.controllerKey # ckey
    \/ d.unitNumber = NoUnit
    \/ d.unitNumber[1] < PciDeviceOffset
    \/ d.unitNumber[1] >= PciDeviceOffset + PciUnitCount

\* The scan that sees only the devices the remote system knows, not those
\* created earlier in the pass.
UsedUnitsIgnoresPending(l, ckey) ==
    [i \in 0..(PciUnitCount - 1) |->
        \E n \in 1..Len(l) :
            /\ l[n].key >= 0
            /\ ~AssignSkips(l[n], ckey)
            /\ l[n].unitNumber[1] - PciDeviceOffset = i]

\* units := make([]bool, 10), filled by the loop.
UsedUnits(l, ckey) ==
    [i \in 0..(PciUnitCount - 1) |->
        \E n \in 1..Len(l) :
            /\ ~AssignSkips(l[n], ckey)
            /\ l[n].unitNumber[1] - PciDeviceOffset = i]

\* The pick with the offset applied to a one-based index.
PickUnitOneBased(units) ==
    IF \A i \in DOMAIN units : units[i]
    THEN -1
    ELSE MinOf({i \in DOMAIN units : ~units[i]}) + 1 + PciDeviceOffset

\* Lines 473-479: first unused index, or -1.
PickUnit(units) ==
    IF \A i \in DOMAIN units : units[i]
    THEN -1
    ELSE MinOf({i \in DOMAIN units : ~units[i]}) + PciDeviceOffset

\* The allocation with the key reset on every attach, whatever it was.
assignEthernetCardResetsKey(l, device, ckey) ==
    LET newUnit == PickUnit(UsedUnits(l, ckey)) IN
    IF newUnit < 0
    THEN [err |-> "NoSlots", device |-> device]
    ELSE [err |-> "",
          device |-> [device EXCEPT !.controllerKey = ckey,
                                    !.unitNumber = <<newUnit>>,
                                    !.key = -1]]

\* The allocation that writes the controller key and the key before it looks
\* for a free unit.
assignEthernetCardWritesBeforeScan(l, device, ckey) ==
    LET newUnit == PickUnit(UsedUnits(l, ckey))
        d0 == [device EXCEPT !.controllerKey = ckey,
                             !.key = IF device.key = 0 THEN -1 ELSE device.key]
    IN  IF newUnit < 0
        THEN [err |-> "NoSlots", device |-> d0]
        ELSE [err |-> "", device |-> [d0 EXCEPT !.unitNumber = <<newUnit>>]]

\* Lines 451-491.  On a full bus the device is returned untouched; otherwise
\* controller key and unit number are set and a zero key becomes -1.
assignEthernetCard(l, device, ckey) ==
    LET newUnit == PickUnit(UsedUnits(l, ckey)) IN
    IF newUnit < 0
    THEN [err |-> "NoSlots", device |-> device]
    ELSE [err |-> "",
          device |-> [device EXCEPT !.controllerKey = ckey,
                                    !.unitNumber = <<newUnit>>,
                                    !.key = IF device.key = 0 THEN -1 ELSE device.key]]

\* govmomi VirtualDeviceList.NewKey: one below the lowest key of the list,
\* and never above -201.
NewKey(l) ==
    LET keys == {l[n].key : n \in 1..Len(l)} \cup {-200}
    IN  MinOf(keys) - 1

(***************************************************************************)
(* Network interface subresource                                            *)
(***************************************************************************)
\* The concrete types behind types.BaseVirtualEthernetCard (lines 167-183).
NicTypes == {"e1000", "e1000e", "pcnet32", "sriov", "vmxnet2", "vmxnet3"}

\* baseVirtualDeviceToBaseVirtualEthernetCard succeeds on these only.
IsEthernetCard(vd) == vd.type \in NicTypes

\* govmomi VirtualDeviceList.CreateEthernetCard: a device of the named type
\* with the backing set; the empty name means the first type.
CreateEthernetCard(name, backing) ==
    LET n == IF name = "" THEN "e1000" ELSE name IN
    IF n \in NicTypes
    THEN [err |-> "", device |-> [NewDevice(n) EXCEPT !.key = -1,
                                                       !.backing = backing]]
    ELSE [err |-> "UnknownCardType", device |-> NewDevice(n)]

\* govmomi VirtualDeviceList.ConfigSpec for a one-device list.
ConfigSpec(device, op) == <<[operation |-> op, device |-> device]>>

\* The attributes of the schema (lines 37-100).
SchemaKeys ==
    {"bandwidth_limit", "bandwidth_reservation", "bandwidth_share_level",
     "bandwidth_share_count", "network_id", "adapter_type", "use_static_mac",
     "mac_address", "key"}

\* Subresource.HasChange: the old and the new value of the attribute differ.
\* A name that is not an attribute of the schema has no value on either
\* side, so it never reports a change.
HasChange(old, new, attr) ==
    IF attr \in SchemaKeys THEN old[attr] # new[attr] ELSE FALSE

\* Subresource.FindVirtualDevice: position of the device with the persisted
\* key, 0 when the list has none.
FindVirtualDevice(l, data) ==
    IF \E n \in 1..Len(l) : l[n].key = data.key
    THEN MinOf({n \in 1..Len(l) : l[n].key = data.key})
    ELSE 0

\* Subresource.ControllerForCreateUpdate for the PCI bus: the PCI controller
\* of the list; one is never created.
ControllerForCreateUpdate(l) ==
    IF \E n \in 1..Len(l) : l[n].type = "pci"
    THEN [err |-> "", ctlr |-> l[MinOf({n \in 1..Len(l) : l[n].type = "pci"})]]
    ELSE [err |-> "NoSuitableController", ctlr |-> NewDevice("pci")]

\* Subresource.SaveID: the entry remembers the device it now stands for.
SaveID(data, device) == [data EXCEPT !.key = device.key]

\* Name resolver: network.FromID followed by EthernetCardBackingInfo.
\* A standard network is backed by its own reference, a distributed port
\* group by its port group key, an opaque network by its NSX network id.
KnownBackings ==
    [id \in {"network-A", "network-B", "dvportgroup-1", "network-o1"} |->
        CASE id = "dvportgroup-1" -> [kind |-> "dvs", id |-> "dvportgroup-1"]
          [] id = "network-o1" -> [kind |-> "opaque", id |-> "nsx-1"]
          [] OTHER -> [kind |-> "network", id |-> id]]

EthernetCardBackingInfo(id) ==
    IF id \in DOMAIN KnownBackings
    THEN [err |-> "", backing |-> KnownBackings[id]]
    ELSE [err |-> "NetworkNotFound", backing |-> NoBacking]

\* Lines 237-245 and 402-410.
ResourceAllocation(data) ==
    <<[limit |-> data.bandwidth_limit,
       reservation |-> data.bandwidth_reservation,
       shares |-> data.bandwidth_share_count,
       level |-> data.bandwidth_share_level]>>

\* Create that keeps the key left by the slot allocation.
CreateKeepsAllocationKey(l, data) ==
    LET c == ControllerForCreateUpdate(l)
        b == EthernetCardBackingInfo(data.network_id)
        ce == CreateEthernetCard(data.adapter_type, b.backing)
        a == assignEthernetCard(l, ce.device, c.ctlr.key)
        d1 == [a.device EXCEPT !.connected = TRUE]
        d3 == IF data.use_static_mac
              THEN [d1 EXCEPT !.addressType = "manual",
                              !.macAddress = data.mac_address]
              ELSE d1
        d4 == [d3 EXCEPT !.alloc = ResourceAllocation(data)]
    IN  IF c.err # "" THEN [err |-> c.err, spec |-> <<>>, data |-> data]
        ELSE IF b.err # "" THEN [err |-> b.err, spec |-> <<>>, data |-> data]
        ELSE IF ce.err # "" THEN [err |-> ce.err, spec |-> <<>>, data |-> data]
        ELSE IF a.err # "" THEN [err |-> a.err, spec |-> <<>>, data |-> data]
        ELSE [err |-> "", spec |-> ConfigSpec(d4, "add"),
              data |-> SaveID(data, d4)]

\* Create without the slot allocation: the card keeps the controller key and
\* the unit number CreateEthernetCard left it with.
CreateSkipsSlotAllocation(l, data) ==
    LET c == ControllerForCreateUpdate(l)
        b == EthernetCardBackingInfo(data.network_id)
        ce == CreateEthernetCard(data.adapter_type, b.backing)
        d1 == [ce.device EXCEPT !.connected = TRUE]
        d2 == [d1 EXCEPT !.key = NewKey(l)]
        d3 == IF data.use_static_mac
              THEN [d2 EXCEPT !.addressType = "manual",
                              !.macAddress = data.mac_address]
              ELSE d2
        d4 == [d3 EXCEPT !.alloc = ResourceAllocation(data)]
    IN  IF c.err # "" THEN [err |-> c.err, spec |-> <<>>, data |-> data]
        ELSE IF b.err # "" THEN [err |-> b.err, spec |-> <<>>, data |-> data]
        ELSE IF ce.err # "" THEN [err |-> ce.err, spec |-> <<>>, data |-> data]
        ELSE [err |-> "", spec |-> ConfigSpec(d4, "add"),
              data |-> SaveID(data, d4)]

\* Create that returns the spec without saving the key in the entry.
CreateForgetsSaveID(l, data) ==
    LET c == ControllerForCreateUpdate(l)
        b == EthernetCardBackingInfo(data.network_id)
        ce == CreateEthernetCard(data.adapter_type, b.backing)
        a == assignEthernetCard(l, ce.device, c.ctlr.key)
        d1 == [a.device EXCEPT !.connected = TRUE]
        d2 == [d1 EXCEPT !.key = NewKey(l)]
        d3 == IF data.use_static_mac
              THEN [d2 EXCEPT !.addressType = "manual",
                              !.macAddress = data.mac_address]
              ELSE d2
        d4 == [d3 EXCEPT !.alloc = ResourceAllocation(data)]
    IN  IF c.err # "" THEN [err |-> c.err, spec |-> <<>>, data |-> data]
        ELSE IF b.err # "" THEN [err |-> b.err, spec |-> <<>>, data |-> data]
        ELSE IF ce.err # "" THEN [err |-> ce.err, spec |-> <<>>, data |-> data]
        ELSE IF a.err # "" THEN [err |-> a.err, spec |-> <<>>, data |-> data]
        ELSE [err |-> "", spec |-> ConfigSpec(d4, "add"), data |-> data]

\* Create that leaves the address type of the new card alone.
CreateIgnoresStaticMac(l, data) ==
    LET c == ControllerForCreateUpdate(l)
        b == EthernetCardBackingInfo(data.network_id)
        ce == CreateEthernetCard(data.adapter_type, b.backing)
        a == assignEthernetCard(l, ce.device, c.ctlr.key)
        d1 == [a.device EXCEPT !.connected = TRUE]
        d2 == [d1 EXCEPT !.key = NewKey(l)]
        d4 == [d2 EXCEPT !.alloc = ResourceAllocation(data)]
    IN  IF c.err # "" THEN [err |-> c.err, spec |-> <<>>, data |-> data]
        ELSE IF b.err # "" THEN [err |-> b.err, spec |-> <<>>, data |-> data]
        ELSE IF ce.err # "" THEN [err |-> ce.err, spec |-> <<>>, data |-> data]
        ELSE IF a.err # "" THEN [err |-> a.err, spec |-> <<>>, data |-> data]
        ELSE [err |-> "", spec |-> ConfigSpec(d4, "add"),
              data |-> SaveID(data, d4)]

\* Lines 186-255.
Create(l, data) ==
    LET c == ControllerForCreateUpdate(l)
        b == EthernetCardBackingInfo(data.network_id)
        ce == CreateEthernetCard(data.adapter_type, b.backing)
        a == assignEthernetCard(l, ce.device, c.ctlr.key)
        d1 == [a.device EXCEPT !.connected = TRUE]
        d2 == [d1 EXCEPT !.key = NewKey(l)]
        d3 == IF data.use_static_mac
              THEN [d2 EXCEPT !.addressType = "manual",
                              !.macAddress = data.mac_address]
              ELSE d2
        d4 == [d3 EXCEPT !.alloc = ResourceAllocation(data)]
    IN  IF c.err # "" THEN [err |-> c.err, spec |-> <<>>, data |-> data]
        ELSE IF b.err # "" THEN [err |-> b.err, spec |-> <<>>, data |-> data]
        ELSE IF ce.err # "" THEN [err |-> ce.err, spec |-> <<>>, data |-> data]
        ELSE IF a.err # "" THEN [err |-> a.err, spec |-> <<>>, data |-> data]
        ELSE [err |-> "", spec |-> ConfigSpec(d4, "add"),
              data |-> SaveID(data, d4)]

\* Name resolver: nsx.OpaqueNetworkFromNetworkID and dvportgroup.FromKey,
\* giving the reference of the network behind a backing.
ResolveBacking(backing) ==
    CASE backing.kind = "opaque" ->
            IF backing.id = "nsx-1" THEN [err |-> "", id |-> "network-o1"]
            ELSE [err |-> "OpaqueNetworkNotFound", id |-> NilRef]
      [] backing.kind = "dvs" ->
            IF backing.id = "dvportgroup-1" THEN [err |-> "", id |-> backing.id]
            ELSE [err |-> "PortgroupNotFound", id |-> NilRef]
      [] OTHER -> [err |-> "", id |-> backing.id]

\* Lines 273-280.
AdapterTypeOf(device) ==
    CASE device.type = "vmxnet3" -> "vmxnet3"
      [] device.type = "e1000" -> "e1000"
      [] OTHER -> "unknown"

\* Read that takes a missing device for a removed one and clears the key.
ReadAbsentAsRemoved(l, data) ==
    LET n == FindVirtualDevice(l, data)
        card == l[n]
        r1 == [data EXCEPT !.adapter_type = AdapterTypeOf(card)]
        res == ResolveBacking(card.backing)
        r2 == [r1 EXCEPT !.network_id = res.id]
        r3 == [r2 EXCEPT !.use_static_mac = (card.addressType = "manual"),
                         !.mac_address = card.macAddress]
        r4 == IF card.alloc # NoAlloc
              THEN [r3 EXCEPT !.bandwidth_limit = card.alloc[1].limit,
                              !.bandwidth_reservation = card.alloc[1].reservation,
                              !.bandwidth_share_count = card.alloc[1].shares,
                              !.bandwidth_share_level = card.alloc[1].level]
              ELSE r3
        r5 == [r4 EXCEPT !.key = card.key]
    IN  IF n = 0 THEN [err |-> "", data |-> [data EXCEPT !.key = 0]]
        ELSE IF ~IsEthernetCard(card) THEN [err |-> "NotNetworkDevice", data |-> data]
        ELSE IF card.backing.kind = "network" /\ card.backing.id = NilRef
             THEN [err |-> "NoNetworkInformation", data |-> r1]
        ELSE IF card.backing.kind \notin {"network", "opaque", "dvs"}
             THEN [err |-> "UnknownBacking", data |-> r1]
        ELSE IF res.err # "" THEN [err |-> res.err, data |-> r1]
        ELSE [err |-> "", data |-> r5]

\* Read that reports no network for a backing it does not know.
ReadUnknownBackingAsNone(l, data) ==
    LET n == FindVirtualDevice(l, data)
        card == l[n]
        r1 == [data EXCEPT !.adapter_type = AdapterTypeOf(card)]
        res == ResolveBacking(card.backing)
        r2 == [r1 EXCEPT !.network_id = res.id]
        r3 == [r2 EXCEPT !.use_static_mac = (card.addressType = "manual"),
                         !.mac_address = card.macAddress]
        r4 == IF card.alloc # NoAlloc
              THEN [r3 EXCEPT !.bandwidth_limit = card.alloc[1].limit,
                              !.bandwidth_reservation = card.alloc[1].reservation,
                              !.bandwidth_share_count = card.alloc[1].shares,
                              !.bandwidth_share_level = card.alloc[1].level]
              ELSE r3
        r5 == [r4 EXCEPT !.key = card.key]
    IN  IF n = 0 THEN [err |-> "DeviceNotFound", data |-> data]
        ELSE IF ~IsEthernetCard(card) THEN [err |-> "NotNetworkDevice", data |-> data]
        ELSE IF card.backing.kind = "network" /\ card.backing.id = NilRef
             THEN [err |-> "NoNetworkInformation", data |-> r1]
        ELSE IF card.backing.kind \notin {"network", "opaque", "dvs"}
             THEN [err |-> "", data |-> [r5 EXCEPT !.network_id = ""]]
        ELSE IF res.err # "" THEN [err |-> res.err, data |-> r1]
        ELSE [err |-> "", data |-> r5]

\* Read that has written the network reference when the resolver fails.
ReadWritesNetworkOnError(l, data) ==
    LET n == FindVirtualDevice(l, data)
        card == l[n]
        r1 == [data EXCEPT !.adapter_type = AdapterTypeOf(card)]
        res == ResolveBacking(card.backing)
        r2 == [r1 EXCEPT !.network_id = res.id]
        r3 == [r2 EXCEPT !.use_static_mac = (card.addressType = "manual"),
                         !.mac_address = card.macAddress]
        r4 == IF card.alloc # NoAlloc
              THEN [r3 EXCEPT !.bandwidth_limit = card.alloc[1].limit,
                              !.bandwidth_reservation = card.alloc[1].reservation,
                              !.bandwidth_share_count = card.alloc[1].shares,
                              !.bandwidth_share_level = card.alloc[1].level]
              ELSE r3
        r5 == [r4 EXCEPT !.key = card.key]
    IN  IF n = 0 THEN [err |-> "DeviceNotFound", data |-> data]
        ELSE IF ~IsEthernetCard(card) THEN [err |-> "NotNetworkDevice", data |-> data]
        ELSE IF card.backing.kind = "network" /\ card.backing.id = NilRef
             THEN [err |-> "NoNetworkInformation", data |-> r1]
        ELSE IF card.backing.kind \notin {"network", "opaque", "dvs"}
             THEN [err |-> "UnknownBacking", data |-> r1]
        ELSE IF res.err # "" THEN [err |-> res.err, data |-> r2]
        ELSE [err |-> "", data |-> r5]

\* Lines 258-328.  The attributes are set in the order of the code, so an
\* error return leaves the ones set before it.
Read(l, data) ==
    LET n == FindVirtualDevice(l, data)
        card == l[n]
        r1 == [data EXCEPT !.adapter_type = AdapterTypeOf(card)]
        res == ResolveBacking(card.backing)
        r2 == [r1 EXCEPT !.network_id = res.id]
        r3 == [r2 EXCEPT !.use_static_mac = (card.addressType = "manual"),
                         !.mac_address = card.macAddress]
        r4 == IF card.alloc # NoAlloc
              THEN [r3 EXCEPT !.bandwidth_limit = card.alloc[1].limit,
                              !.bandwidth_reservation = card.alloc[1].reservation,
                              !.bandwidth_share_count = card.alloc[1].shares,
                              !.bandwidth_share_level = card.alloc[1].level]
              ELSE r3
        r5 == [r4 EXCEPT !.key = card.key]
    IN  IF n = 0 THEN [err |-> "DeviceNotFound", data |-> data]
        ELSE IF ~IsEthernetCard(card) THEN [err |-> "NotNetworkDevice", data |-> data]
        ELSE IF card.backing.kind = "network" /\ card.backing.id = NilRef
             THEN [err |-> "NoNetworkInformation", data |-> r1]
        ELSE IF card.backing.kind \notin {"network", "opaque", "dvs"}
             THEN [err |-> "UnknownBacking", data |-> r1]
        ELSE IF res.err # "" THEN [err |-> res.err, data |-> r1]
        ELSE [err |-> "", data |-> r5]

\* client.ServiceContent.About.ApiType: vCenter or a standalone ESXi host.
ApiTypes == {"VirtualCenter", "HostAgent"}

\* Update that takes every endpoint for vCenter.
UpdateAssignsOnEveryEndpoint(l, old, new, apiType) ==
    LET n == FindVirtualDevice(l, new)
        vd == l[n]
        d1 == IF HasChange(old, new, "use_static_mac")
              THEN IF new.use_static_mac
                   THEN [vd EXCEPT !.addressType = "manual",
                                   !.macAddress = new.mac_address]
                   ELSE [vd EXCEPT !.addressType = "assigned",
                                   !.macAddress = ""]
              ELSE vd
        d2 == [d1 EXCEPT !.alloc = ResourceAllocation(new)]
        op == IF d2.key < 0 THEN "add" ELSE "edit"
    IN  IF n = 0 THEN [err |-> "DeviceNotFound", spec |-> <<>>]
        ELSE IF ~IsEthernetCard(vd) THEN [err |-> "NotNetworkDevice", spec |-> <<>>]
        ELSE [err |-> "", spec |-> ConfigSpec(d2, op)]

\* Update that pushes an edit whatever the key of the device.
UpdateAlwaysEdits(l, old, new, apiType) ==
    LET n == FindVirtualDevice(l, new)
        vd == l[n]
        replace == HasChange(old, new, "device_type")
        ce == CreateEthernetCard(new.adapter_type, vd.backing)
        newCard == [ce.device EXCEPT !.controllerKey = vd.controllerKey,
                                     !.unitNumber = vd.unitNumber,
                                     !.key = NewKey(l)]
        d0 == IF replace THEN newCard ELSE vd
        d1 == IF HasChange(old, new, "use_static_mac")
              THEN IF new.use_static_mac
                   THEN [d0 EXCEPT !.addressType = "manual",
                                   !.macAddress = new.mac_address]
                   ELSE [d0 EXCEPT !.addressType =
                                       IF apiType # "VirtualCenter"
                                       THEN "generated" ELSE "assigned",
                                   !.macAddress = ""]
              ELSE d0
        d2 == [d1 EXCEPT !.alloc = ResourceAllocation(new)]
        op == "edit"
    IN  IF n = 0 THEN [err |-> "DeviceNotFound", spec |-> <<>>]
        ELSE IF ~IsEthernetCard(vd) THEN [err |-> "NotNetworkDevice", spec |-> <<>>]
        ELSE IF replace /\ ce.err # "" THEN [err |-> ce.err, spec |-> <<>>]
        ELSE [err |-> "",
              spec |-> (IF replace THEN ConfigSpec(vd, "remove") ELSE <<>>)
                           \o ConfigSpec(d2, op)]

\* Lines 331-427.  apiType is client.ServiceContent.About.ApiType.
Update(l, old, new, apiType) ==
    LET n == FindVirtualDevice(l, new)
        vd == l[n]
        replace == HasChange(old, new, "device_type")
        ce == CreateEthernetCard(new.adapter_type, vd.backing)
        newCard == [ce.device EXCEPT !.controllerKey = vd.controllerKey,
                                     !.unitNumber = vd.unitNumber,
                                     !.key = NewKey(l)]
        d0 == IF replace THEN newCard ELSE vd
        d1 == IF HasChange(old, new, "use_static_mac")
              THEN IF new.use_static_mac
                   THEN [d0 EXCEPT !.addressType = "manual",
                                   !.macAddress = new.mac_address]
                   ELSE [d0 EXCEPT !.addressType =
                                       IF apiType # "VirtualCenter"
                                       THEN "generated" ELSE "assigned",
                                   !.macAddress = ""]
              ELSE d0
        d2 == [d1 EXCEPT !.alloc = ResourceAllocation(new)]
        op == IF d2.key < 0 THEN "add" ELSE "edit"
    IN  IF n = 0 THEN [err |-> "DeviceNotFound", spec |-> <<>>]
        ELSE IF ~IsEthernetCard(vd) THEN [err |-> "NotNetworkDevice", spec |-> <<>>]
        ELSE IF replace /\ ce.err # "" THEN [err |-> ce.err, spec |-> <<>>]
        ELSE [err |-> "",
              spec |-> (IF replace THEN ConfigSpec(vd, "remove") ELSE <<>>)
                           \o ConfigSpec(d2, op)]

\* Delete that pushes an edit of the device.
DeleteAsEdit(l, data) ==
    LET n == FindVirtualDevice(l, data) IN
    IF n = 0 THEN [err |-> "DeviceNotFound", spec |-> <<>>]
    ELSE IF ~IsEthernetCard(l[n]) THEN [err |-> "NotNetworkDevice", spec |-> <<>>]
    ELSE [err |-> "", spec |-> ConfigSpec(l[n], "edit")]

\* Delete that reports a missing device and still returns a "remove" for
\* its key.
DeleteReportsAndRemoves(l, data) ==
    LET n == FindVirtualDevice(l, data) IN
    IF n = 0
    THEN [err |-> "DeviceNotFound",
          spec |-> ConfigSpec([NewDevice("e1000") EXCEPT !.key = data.key],
                              "remove")]
    ELSE IF ~IsEthernetCard(l[n]) THEN [err |-> "NotNetworkDevice", spec |-> <<>>]
    ELSE [err |-> "", spec |-> ConfigSpec(l[n], "remove")]

\* Delete that takes a missing device for one already deleted.
DeleteAbsentAsNoOp(l, data) ==
    LET n == FindVirtualDevice(l, data) IN
    IF n = 0 THEN [err |-> "", spec |-> <<>>]
    ELSE IF ~IsEthernetCard(l[n]) THEN [err |-> "NotNetworkDevice", spec |-> <<>>]
    ELSE [err |-> "", spec |-> ConfigSpec(l[n], "remove")]

\* Lines 430-445.
Delete(l, data) ==
    LET n == FindVirtualDevice(l, data) IN
    IF n = 0 THEN [err |-> "DeviceNotFound", spec |-> <<>>]
    ELSE IF ~IsEthernetCard(l[n]) THEN [err |-> "NotNetworkDevice", spec |-> <<>>]
    ELSE [err |-> "", spec |-> ConfigSpec(l[n], "remove")]

(***************************************************************************)
(* Values of the variables of SpecAssign while another specification runs   *)
(***************************************************************************)
NoAssign == [called |-> FALSE, err |-> "", input |-> NewDevice("e1000"),
             device |-> NewDevice("e1000"), before |-> <<>>]

AssignIdle ==
    /\ aL = <<>>
    /\ aCtlr = 0
    /\ aRes = NoAssign
    /\ aCount = 0

\* The entry of a network interface with the defaults of the schema.
DefaultEntry ==
    [adapter_type |-> "e1000", network_id |-> "network-A",
     use_static_mac |-> FALSE, mac_address |-> "",
     bandwidth_limit |-> -1, bandwidth_reservation |-> 0,
     bandwidth_share_level |-> "normal", bandwidth_share_count |-> 0,
     key |-> 0]

NoOperation ==
    [op |-> "none", err |-> "", spec |-> <<>>, old |-> DefaultEntry,
     new |-> DefaultEntry, before |-> <<>>]

ReconcileIdle ==
    /\ rInv = <<>> /\ rL = <<>> /\ rOld = <<>> /\ rNew = <<>>
    /\ rSpecs = <<>> /\ rPc = "idle" /\ rDel = 1 /\ rIdx = 1
    /\ rErr = "" /\ rPass = 0
    /\ rLast = NoOperation

NoSubResult ==
    [op |-> "none", err |-> "", spec |-> <<>>, data |-> DefaultEntry,
     api |-> ""]

SubIdle ==
    /\ sL = <<>>
    /\ sOld = DefaultEntry
    /\ sNew = DefaultEntry
    /\ sRes = NoSubResult

(***************************************************************************)
(* Clone workflow (vmworkflow package)                                      *)
(***************************************************************************)
\* mo.VirtualMachine.Snapshot: nil, or the root snapshot list (each root with
\* its snapshot reference and the number of its children) and the
\* current-snapshot reference, itself possibly nil.
NoSnapshotInfo == <<>>

\* Snapshot validation that accepts a root snapshot with children.
validateCloneSnapshotsNoChildCheck(snapshot) ==
    IF snapshot = NoSnapshotInfo THEN "NoSnapshot"
    ELSE IF Len(snapshot[1].roots) # 1 THEN "RootSnapshotCount"
    ELSE IF snapshot[1].current = NilRef THEN "panic"
    ELSE IF snapshot[1].current # snapshot[1].roots[1].id THEN "SnapshotMismatch"
    ELSE ""

\* Lines 88-105.  The comparison of line 101 dereferences CurrentSnapshot; a
\* nil reference there is a run-time panic.
validateCloneSnapshots(snapshot) ==
    IF snapshot = NoSnapshotInfo THEN "NoSnapshot"
    ELSE IF Len(snapshot[1].roots) # 1 THEN "RootSnapshotCount"
    ELSE IF snapshot[1].roots[1].children > 0 THEN "RootSnapshotHasChildren"
    ELSE IF snapshot[1].current = NilRef THEN "panic"
    ELSE IF snapshot[1].current # snapshot[1].roots[1].id THEN "SnapshotMismatch"
    ELSE ""

\* Validation that checks the snapshots before the power state.
ValidateVirtualMachineCloneSnapshotsFirst(in) ==
    IF ~in.vmFound THEN "VMNotFound"
    ELSE IF ~in.propsOk THEN "PropertiesError"
    ELSE IF in.linked /\ validateCloneSnapshots(in.snapshot) # ""
         THEN validateCloneSnapshots(in.snapshot)
    ELSE IF in.power # "poweredOff" THEN "SourceNotPoweredOff"
    ELSE IF ~in.disksValid THEN "DiskValidateError"
    ELSE ""

\* Lines 51-83.
ValidateVirtualMachineClone(in) ==
    IF ~in.vmFound THEN "VMNotFound"
    ELSE IF ~in.propsOk THEN "PropertiesError"
    ELSE IF in.power # "poweredOff" THEN "SourceNotPoweredOff"
    ELSE IF in.linked /\ validateCloneSnapshots(in.snapshot) # ""
         THEN validateCloneSnapshots(in.snapshot)
    ELSE IF ~in.disksValid THEN "DiskValidateError"
    ELSE ""

\* var spec types.VirtualMachineCloneSpec
EmptyCloneSpec ==
    [datastore |-> NilRef, snapshot |-> NilRef, diskMoveType |-> "",
     disk |-> <<>>]

\* Clone-spec construction that treats every clone as a linked clone.
ExpandVirtualMachineCloneSpecAlwaysLinked(in) ==
    LET s0 == EmptyCloneSpec
        s1 == [s0 EXCEPT !.datastore = in.datastoreId]
        verr == validateCloneSnapshots(in.snapshot)
        s2 == [s1 EXCEPT !.snapshot = in.snapshot[1].current,
                         !.diskMoveType = "createNewChildDiskBacking"]
    IN  IF ~in.datastoreFound THEN [err |-> "DatastoreNotFound", spec |-> s0]
        ELSE IF ~in.vmFound THEN [err |-> "VMNotFound", spec |-> s1]
        ELSE IF ~in.propsOk THEN [err |-> "PropertiesError", spec |-> s1]
        ELSE IF verr # "" THEN [err |-> verr, spec |-> s1]
        ELSE IF ~in.relocateOk THEN [err |-> "DiskRelocateError", spec |-> s2]
        ELSE [err |-> "", spec |-> [s2 EXCEPT !.disk = in.relocators]]

\* Clone-spec construction that rejects a source that is not powered off.
ExpandVirtualMachineCloneSpecPowerChecked(in) ==
    LET s0 == EmptyCloneSpec
        s1 == [s0 EXCEPT !.datastore = in.datastoreId]
        verr == validateCloneSnapshots(in.snapshot)
        s2 == IF in.linked
              THEN [s1 EXCEPT !.snapshot = in.snapshot[1].current,
                              !.diskMoveType = "createNewChildDiskBacking"]
              ELSE s1
    IN  IF ~in.datastoreFound THEN [err |-> "DatastoreNotFound", spec |-> s0]
        ELSE IF ~in.vmFound THEN [err |-> "VMNotFound", spec |-> s1]
        ELSE IF ~in.propsOk THEN [err |-> "PropertiesError", spec |-> s1]
        ELSE IF in.power # "poweredOff"
             THEN [err |-> "SourceNotPoweredOff", spec |-> s1]
        ELSE IF in.linked /\ verr # "" THEN [err |-> verr, spec |-> s1]
        ELSE IF ~in.relocateOk THEN [err |-> "DiskRelocateError", spec |-> s2]
        ELSE [err |-> "", spec |-> [s2 EXCEPT !.disk = in.relocators]]

\* Lines 113-154.  The spec under construction is returned with every error.
ExpandVirtualMachineCloneSpec(in) ==
    LET s0 == EmptyCloneSpec
        s1 == [s0 EXCEPT !.datastore = in.datastoreId]
        verr == validateCloneSnapshots(in.snapshot)
        s2 == IF in.linked
              THEN [s1 EXCEPT !.snapshot = in.snapshot[1].current,
                              !.diskMoveType = "createNewChildDiskBacking"]
              ELSE s1
    IN  IF ~in.datastoreFound THEN [err |-> "DatastoreNotFound", spec |-> s0]
        ELSE IF ~in.vmFound THEN [err |-> "VMNotFound", spec |-> s1]
        ELSE IF ~in.propsOk THEN [err |-> "PropertiesError", spec |-> s1]
        ELSE IF in.linked /\ verr # "" THEN [err |-> verr, spec |-> s1]
        ELSE IF ~in.relocateOk THEN [err |-> "DiskRelocateError", spec |-> s2]
        ELSE [err |-> "", spec |-> [s2 EXCEPT !.disk = in.relocators]]

(***************************************************************************)
(* SpecClone: one source VM and clone configuration, on which the three     *)
(* entry points are run.                                                    *)
(***************************************************************************)
MaxRoots == 2

MaxChildren == 1

SnapshotRefs == {"snapshot-1", "snapshot-2"}

PowerStates == {"poweredOff", "poweredOn", "suspended"}

SnapshotInfos ==
    {NoSnapshotInfo} \cup
    {<<[roots |-> r, current |-> c]>> :
        r \in SeqsUpTo([id : SnapshotRefs, children : 0..MaxChildren], MaxRoots),
        c \in SnapshotRefs \cup {NilRef}}

CloneInputs ==
    [vmFound : BOOLEAN, propsOk : BOOLEAN, power : PowerStates,
     linked : BOOLEAN, snapshot : SnapshotInfos, datastoreFound : BOOLEAN,
     datastoreId : {"datastore-1"}, disksValid : BOOLEAN,
     relocateOk : BOOLEAN, relocators : {<<"disk-relocate-2000">>}]

NoCloneInput ==
    [vmFound |-> FALSE, propsOk |-> FALSE, power |-> "poweredOff",
     linked |-> FALSE, snapshot |-> NoSnapshotInfo, datastoreFound |-> FALSE,
     datastoreId |-> "datastore-1", disksValid |-> FALSE,
     relocateOk |-> FALSE, relocators |-> <<"disk-relocate-2000">>]

NoCloneResult == [op |-> "none", err |-> "", spec |-> EmptyCloneSpec]

CloneIdle ==
    /\ cIn = NoCloneInput
    /\ cRes = NoCloneResult

CloneInit ==
    /\ cIn \in CloneInputs
    /\ cRes = NoCloneResult
    /\ AssignIdle
    /\ ReconcileIdle
    /\ SubIdle

\* validateCloneSnapshots run on the source's snapshot information.
CloneCheckSnapshots ==
    /\ cRes' = [op |-> "snapshots", err |-> validateCloneSnapshots(cIn.snapshot),
                spec |-> EmptyCloneSpec]
    /\ UNCHANGED cIn
    /\ UNCHANGED assignVars
    /\ UNCHANGED recVars
    /\ UNCHANGED subVars

\* ValidateVirtualMachineClone at plan time.
CloneValidate ==
    /\ cRes' = [op |-> "validate", err |-> ValidateVirtualMachineClone(cIn),
                spec |-> EmptyCloneSpec]
    /\ UNCHANGED cIn
    /\ UNCHANGED assignVars
    /\ UNCHANGED recVars
    /\ UNCHANGED subVars

\* ExpandVirtualMachineCloneSpec at create time.
CloneExpand ==
    /\ LET r == ExpandVirtualMachineCloneSpec(cIn)
       IN  cRes' = [op |-> "expand", err |-> r.err, spec |-> r.spec]
    /\ UNCHANGED cIn
    /\ UNCHANGED assignVars
    /\ UNCHANGED recVars
    /\ UNCHANGED subVars

CloneNext == CloneCheckSnapshots \/ CloneValidate \/ CloneExpand

SpecClone == CloneInit /\ [][CloneNext]_vars

(***************************************************************************)
(* Claims checked under SpecClone                                           *)
(***************************************************************************)
OneRoot(s) == s # NoSnapshotInfo /\ Len(s[1].roots) = 1

OneChildlessRoot(s) == OneRoot(s) /\ s[1].roots[1].children = 0

CurrentIsRoot(s) == s[1].current = s[1].roots[1].id

AmbiguousSnapshotErrors == {"RootSnapshotCount", "RootSnapshotHasChildren"}

LookupsOk == cIn.vmFound /\ cIn.propsOk

\* C7 (as claimed): snapshot validation fails with the no-snapshot error
\* without snapshot information, with the ambiguous-snapshot error when the
\* root count is not 1 or the root has a child, with the snapshot-mismatch
\* error when the current snapshot is not the root snapshot, and succeeds
\* exactly for one childless root that is the current snapshot.
C7_SnapshotValidationOutcomes ==
    cRes.op = "snapshots" =>
        LET s == cIn.snapshot IN
        /\ s = NoSnapshotInfo => cRes.err = "NoSnapshot"
        /\ (s # NoSnapshotInfo /\ ~OneChildlessRoot(s))
              => cRes.err \in AmbiguousSnapshotErrors
        /\ (OneChildlessRoot(s) /\ ~CurrentIsRoot(s))
              => cRes.err = "SnapshotMismatch"
        /\ cRes.err = "" <=> (OneChildlessRoot(s) /\ CurrentIsRoot(s))

\* C8 (as claimed): building the clone spec for a powered-on source with
\* linked clone requested fails with the source-not-powered-off error, also
\* when the snapshot topology is invalid.
C8_ExpandRejectsPoweredOn ==
    (/\ cRes.op = "expand"
     /\ cIn.datastoreFound /\ LookupsOk
     /\ cIn.linked /\ cIn.power = "poweredOn")
        => cRes.err = "SourceNotPoweredOff"

\* C8 (amended): building the clone spec never looks at the power state: the
\* outcome for any source is the outcome for the same source powered off,
\* it is never the source-not-powered-off error, and for a linked clone whose
\* snapshot validation does not pass it is that validation's outcome.
C8_ExpandIgnoresPowerState ==
    cRes.op = "expand" =>
        /\ cRes.err # "SourceNotPoweredOff"
        /\ LET off == ExpandVirtualMachineCloneSpec([cIn EXCEPT !.power = "poweredOff"])
           IN  cRes.err = off.err /\ cRes.spec = off.spec
        /\ (/\ cIn.datastoreFound /\ LookupsOk /\ cIn.linked
            /\ validateCloneSnapshots(cIn.snapshot) # "")
              => cRes.err = validateCloneSnapshots(cIn.snapshot)

\* C8 witness: a clone spec was built without error for a powered-on source
\* with linked clone requested.
C8_Witness ==
    /\ cRes.op = "expand" /\ cRes.err = ""
    /\ cIn.linked /\ cIn.power = "poweredOn"

\* C9: validation of a source that is not powered off fails with the
\* source-not-powered-off error whatever the linked-clone flag, the snapshot
\* topology and the disks are: the check comes before both.
C9_ValidatePowerStateFirst ==
    (cRes.op = "validate" /\ LookupsOk /\ cIn.power # "poweredOff")
        => cRes.err = "SourceNotPoweredOff"

\* C9 witness: a source that is not powered off, has no snapshot although a
\* linked clone is requested, and has unsuitable disks, was rejected for its
\* power state.
C9_Witness ==
    /\ cRes.op = "validate" /\ LookupsOk
    /\ cIn.power = "suspended" /\ cIn.linked
    /\ cIn.snapshot = NoSnapshotInfo /\ ~cIn.disksValid
    /\ cRes.err = "SourceNotPoweredOff"

\* C10: a clone spec built without error for a linked clone comes from a
\* source with exactly one root snapshot, without children, that is the
\* current snapshot.
C10_LinkedSpecHasSingleSnapshot ==
    (cRes.op = "expand" /\ cRes.err = "" /\ cIn.linked)
        => /\ OneChildlessRoot(cIn.snapshot)
           /\ CurrentIsRoot(cIn.snapshot)
           /\ cRes.spec.snapshot = cIn.snapshot[1].roots[1].id

\* C10 witness: a clone spec was built without error for a linked clone.
C10_Witness ==
    /\ cRes.op = "expand" /\ cRes.err = "" /\ cIn.linked
    /\ cRes.spec.diskMoveType = "createNewChildDiskBacking"

\* C22: in a clone spec built without error the snapshot reference is set,
\* to the source's current snapshot, and the disk move mode is "create new
\* child disk backing" exactly when a linked clone is requested; otherwise
\* both are unset and the snapshot topology is not examined: the outcome of
\* construction and of validation is the same for every topology.  In both
\* cases the target datastore is the declared datastore.
C22_SnapshotAndMoveModeIffLinked ==
    /\ (cRes.op = "expand" /\ cRes.err = "") =>
          /\ cRes.spec.datastore = cIn.datastoreId
          /\ cIn.linked <=> cRes.spec.snapshot # NilRef
          /\ cIn.linked <=> cRes.spec.diskMoveType = "createNewChildDiskBacking"
          /\ cIn.linked => cRes.spec.snapshot = cIn.snapshot[1].current
          /\ ~cIn.linked => cRes.spec.diskMoveType = ""
    /\ (cRes.op = "expand" /\ ~cIn.linked) =>
          \A s \in SnapshotInfos :
             LET r == ExpandVirtualMachineCloneSpec([cIn EXCEPT !.snapshot = s])
             IN  cRes.err = r.err /\ cRes.spec = r.spec
    /\ (cRes.op = "validate" /\ ~cIn.linked) =>
          \A s \in SnapshotInfos :
             cRes.err = ValidateVirtualMachineClone([cIn EXCEPT !.snapshot = s])

\* C22 witness: a clone spec was built without error for a clone that is not
\* linked, from a source with two root snapshots and no current snapshot.
C22_Witness ==
    /\ cRes.op = "expand" /\ cRes.err = "" /\ ~cIn.linked
    /\ cIn.snapshot # NoSnapshotInfo
    /\ Len(cIn.snapshot[1].roots) = 2
    /\ cIn.snapshot[1].current = NilRef
    /\ cRes.spec.snapshot = NilRef
    /\ cRes.spec.datastore = "datastore-1"

\* C26 (as claimed): snapshot validation returns success or an error value
\* for every snapshot description; a source with snapshot information and
\* exactly one childless root snapshot but no current-snapshot reference is
\* rejected with an error, it does not crash the validation.
C26_SnapshotValidationTotal ==
    cRes.op = "snapshots" =>
        /\ cRes.err # "panic"
        /\ (OneChildlessRoot(cIn.snapshot) /\ cIn.snapshot[1].current = NilRef)
              => cRes.err \in {"NoSnapshot", "RootSnapshotCount",
                               "RootSnapshotHasChildren", "SnapshotMismatch"}

(***************************************************************************)
(* SpecAssign: slot allocations on one controller, every attached device    *)
(* joining the list before the next allocation.                             *)
(***************************************************************************)
MaxInitDevs == 2

MaxAllocs == 11

InitUnits == {NoUnit, <<6>>, <<7>>, <<8>>, <<16>>, <<17>>}

\* The PCI controller of a virtual machine has key 100; 200 is its first IDE
\* controller.
ControllerKeys == {100, 200}

AttachKeys == {0, -300}

InitDevice(n, ckey, unit) ==
    [NewDevice("other") EXCEPT !.key = 4000 + n, !.controllerKey = ckey,
                               !.unitNumber = unit]

SlotsUnique(l) ==
    \A i, j \in 1..Len(l) :
        (i # j /\ l[i].controllerKey = l[j].controllerKey
               /\ l[i].unitNumber # NoUnit)
            => l[i].unitNumber # l[j].unitNumber

InitLists ==
    {l \in {[n \in 1..Len(s) |-> InitDevice(n, s[n][1], s[n][2])] :
                s \in SeqsUpTo(ControllerKeys \X InitUnits, MaxInitDevs)} :
        SlotsUnique(l)}

AssignInit ==
    /\ aL \in InitLists
    /\ aCtlr \in ControllerKeys
    /\ aRes = NoAssign
    /\ aCount = 0
    /\ CloneIdle
    /\ ReconcileIdle
    /\ SubIdle

\* One attach: assignEthernetCard, then the key of Create line 230, then the
\* caller appends the device to the list.
AssignStep ==
    /\ aCount < MaxAllocs
    /\ \E k \in AttachKeys :
        LET input == [NewDevice("e1000") EXCEPT !.key = k]
            r == assignEthernetCard(aL, input, aCtlr)
        IN  /\ aRes' = [called |-> TRUE, err |-> r.err, input |-> input,
                        device |-> r.device, before |-> aL]
            /\ aL' = IF r.err = ""
                     THEN Append(aL, [r.device EXCEPT !.key = NewKey(aL)])
                     ELSE aL
    /\ aCount' = aCount + 1
    /\ UNCHANGED aCtlr
    /\ UNCHANGED cloneVars
    /\ UNCHANGED recVars
    /\ UNCHANGED subVars

AssignNext == AssignStep

SpecAssign == AssignInit /\ [][AssignNext]_vars

(***************************************************************************)
(* Claims checked under SpecAssign                                          *)
(***************************************************************************)
\* Units of the window not held by any device of list l on controller ckey.
FreeUnits(l, ckey) ==
    {u \in PciDeviceOffset..(PciDeviceOffset + PciUnitCount - 1) :
        ~\E n \in 1..Len(l) :
            l[n].controllerKey = ckey /\ l[n].unitNumber = <<u>>}

\* The devices that hold a unit of the window on controller ckey.
OnBus(l, ckey) ==
    SelectSeq(l, LAMBDA d :
        /\ d.controllerKey = ckey
        /\ d.unitNumber # NoUnit
        /\ d.unitNumber[1] >= PciDeviceOffset
        /\ d.unitNumber[1] < PciDeviceOffset + PciUnitCount)

\* C1: a successful allocation gives the device the controller's key and the
\* lowest unit of 7..16 that no device of the list on that controller holds;
\* devices on other controllers, without a unit number or outside 7..16 do
\* not influence the outcome (the outcome is that of the list restricted to
\* the devices holding a window unit on the controller).
C1_LowestFreeUnit ==
    aRes.called =>
        /\ aRes.err = "" =>
              /\ FreeUnits(aRes.before, aCtlr) # {}
              /\ aRes.device.unitNumber = <<MinOf(FreeUnits(aRes.before, aCtlr))>>
              /\ aRes.device.controllerKey = aCtlr
        /\ LET r == assignEthernetCard(OnBus(aRes.before, aCtlr), aRes.input, aCtlr)
           IN  r.err = aRes.err /\ r.device = aRes.device

\* C1 witness: unit 7 of the controller is held, another controller holds a
\* unit of the window, and the allocation returned a unit above 7.
C1_Witness ==
    /\ aRes.called /\ aRes.err = ""
    /\ \E n \in 1..Len(aRes.before) :
          /\ aRes.before[n].controllerKey = aCtlr
          /\ aRes.before[n].unitNumber = <<7>>
    /\ \E n \in 1..Len(aRes.before) :
          /\ aRes.before[n].controllerKey # aCtlr
          /\ aRes.before[n].unitNumber = <<8>>
    /\ aRes.device.unitNumber = <<8>>

\* C2: over a sequence of allocations on one controller an allocation never
\* returns a unit already held on that controller, and it fails with the
\* no-more-slots error exactly when all ten units 7..16 are held.
C2_NoReuseFullIffError ==
    aRes.called =>
        /\ aRes.err = "" =>
              ~\E n \in 1..Len(aRes.before) :
                  /\ aRes.before[n].controllerKey = aRes.device.controllerKey
                  /\ aRes.before[n].unitNumber = aRes.device.unitNumber
        /\ (aRes.err = "NoSlots") <=> (FreeUnits(aRes.before, aCtlr) = {})
        /\ aRes.err \in {"", "NoSlots"}

\* C2 witness: an allocation failed on a bus whose ten units are all held,
\* after at least ten allocations.
C2_Witness ==
    /\ aRes.called /\ aRes.err = "NoSlots"
    /\ aCount >= PciUnitCount
    /\ Len(OnBus(aL, aCtlr)) = PciUnitCount

\* The device as the allocation may change it: controller key and unit
\* number taken from the result, everything else from the input.
SlotOnly(input, device) ==
    [input EXCEPT !.controllerKey = device.controllerKey,
                  !.unitNumber = device.unitNumber]

\* C17 (as claimed): an allocation changes nothing but the controller key
\* and the unit number of the device being attached; its other fields, the
\* key included, and the devices already in the list stay as they were.
C17_AllocationChangesOnlySlot ==
    aRes.called =>
        /\ aRes.device = SlotOnly(aRes.input, aRes.device)
        /\ SubSeq(aL, 1, Len(aRes.before)) = aRes.before

\* C17 (amended): a successful allocation changes the controller key and the
\* unit number of the device being attached and turns a zero key into -1; a
\* non-zero key, every other field and the devices already in the list stay
\* as they were, and a failed allocation changes nothing at all.
C17_AllocationChangesSlotAndZeroKey ==
    aRes.called =>
        /\ aRes.err = "" =>
              aRes.device =
                  [SlotOnly(aRes.input, aRes.device) EXCEPT
                      !.key = IF aRes.input.key = 0 THEN -1 ELSE aRes.input.key]
        /\ aRes.err # "" => aRes.device = aRes.input
        /\ SubSeq(aL, 1, Len(aRes.before)) = aRes.before

\* C17 witness: a device with a zero key was given a unit above 7 on a list
\* that already had devices, and came back with key -1.
C17_Witness ==
    /\ aRes.called /\ aRes.err = ""
    /\ aRes.input.key = 0 /\ aRes.device.key = -1
    /\ aRes.before # <<>>
    /\ aRes.device.unitNumber # <<7>>

(***************************************************************************)
(* List reconciler (deviceApplyOperation), remote apply and refresh         *)
(***************************************************************************)
\* The list without the device of the given key.
Excise(l, key) == SelectSeq(l, LAMBDA d : d.key # key)

\* The list with the device of the same key replaced in place.
ReplaceDevice(l, device) ==
    [n \in 1..Len(l) |-> IF l[n].key = device.key THEN device ELSE l[n]]

\* The working list after the change specs of one subresource call.
RECURSIVE ApplyDeviceChange(_, _)
ApplyDeviceChange(l, spec) ==
    IF spec = <<>> THEN l
    ELSE LET c == Head(spec)
             l1 == CASE c.operation = "remove" -> Excise(l, c.device.key)
                     [] c.operation = "add" -> Append(l, c.device)
                     [] OTHER -> ReplaceDevice(l, c.device)
         IN  ApplyDeviceChange(l1, Tail(spec))

\* The attributes the configuration declares; the MAC address is declared
\* only for a static MAC, otherwise it is computed.
DeclaredKeys(new) ==
    {"adapter_type", "network_id", "use_static_mac", "bandwidth_limit",
     "bandwidth_reservation", "bandwidth_share_level", "bandwidth_share_count"}
        \cup (IF new.use_static_mac THEN {"mac_address"} ELSE {})

\* The declared attributes differ from what a Read of the device reported.
Differs(new, old) == \E k \in DeclaredKeys(new) : new[k] # old[k]

KeysOf(entries) == {entries[i].key : i \in 1..Len(entries)}

\* The persisted entry of the given key.
OldOf(key) == rOld[MinOf({i \in 1..Len(rOld) : rOld[i].key = key})]

\* The next persisted entry, from position rDel on, that the declared list
\* no longer has; 0 when there is none.
NextRemoved ==
    LET S == {j \in rDel..Len(rOld) : rOld[j].key \notin KeysOf(rNew)}
    IN  IF S = {} THEN 0 ELSE MinOf(S)

\* The first error ends the pass; the batch built so far is dropped.
RecFail(op, r, old, new) ==
    /\ rPc' = "failed"
    /\ rErr' = r.err
    /\ rSpecs' = <<>>
    /\ rLast' = [op |-> op, err |-> r.err, spec |-> r.spec, old |-> old,
                 new |-> new, before |-> rL]
    /\ UNCHANGED <<rInv, rL, rOld, rNew, rDel, rIdx, rPass>>

\* A device dropped from the declared list: Delete, then excise.
RecDelete ==
    /\ rPc = "run"
    /\ NextRemoved # 0
    /\ LET e == rOld[NextRemoved]
           r == Delete(rL, e)
       IN  IF r.err # "" THEN RecFail("delete", r, e, e)
           ELSE /\ rL' = ApplyDeviceChange(rL, r.spec)
                /\ rSpecs' = rSpecs \o r.spec
                /\ rDel' = NextRemoved + 1
                /\ rLast' = [op |-> "delete", err |-> "", spec |-> r.spec,
                             old |-> e, new |-> e, before |-> rL]
                /\ UNCHANGED <<rInv, rOld, rNew, rPc, rIdx, rErr, rPass>>
    /\ UNCHANGED <<assignVars, cloneVars, subVars>>

\* A declared entry without a key: Create, append, record the key.
RecCreate ==
    /\ rPc = "run"
    /\ NextRemoved = 0
    /\ rIdx <= Len(rNew)
    /\ rNew[rIdx].key = 0
    /\ LET e == rNew[rIdx]
           r == Create(rL, e)
       IN  IF r.err # "" THEN RecFail("create", r, e, e)
           ELSE /\ rL' = ApplyDeviceChange(rL, r.spec)
                /\ rSpecs' = rSpecs \o r.spec
                /\ rNew' = [rNew EXCEPT ![rIdx] = r.data]
                /\ rIdx' = rIdx + 1
                /\ rLast' = [op |-> "create", err |-> "", spec |-> r.spec,
                             old |-> e, new |-> r.data, before |-> rL]
                /\ UNCHANGED <<rInv, rOld, rPc, rDel, rErr, rPass>>
    /\ UNCHANGED <<assignVars, cloneVars, subVars>>

\* A declared entry with a key whose attributes changed: Update, against
\* either kind of endpoint.
RecUpdate ==
    /\ rPc = "run"
    /\ NextRemoved = 0
    /\ rIdx <= Len(rNew)
    /\ rNew[rIdx].key # 0
    /\ Differs(rNew[rIdx], OldOf(rNew[rIdx].key))
    /\ \E api \in ApiTypes :
       LET e == rNew[rIdx]
           o == OldOf(e.key)
           r == Update(rL, o, e, api)
       IN  IF r.err # "" THEN RecFail("update", r, o, e)
           ELSE /\ rL' = ApplyDeviceChange(rL, r.spec)
                /\ rSpecs' = rSpecs \o r.spec
                /\ rIdx' = rIdx + 1
                /\ rLast' = [op |-> "update", err |-> "", spec |-> r.spec,
                             old |-> o, new |-> e, before |-> rL]
                /\ UNCHANGED <<rInv, rOld, rNew, rPc, rDel, rErr, rPass>>
    /\ UNCHANGED <<assignVars, cloneVars, subVars>>

\* A declared entry with a key and unchanged attributes: nothing to do.
RecSkip ==
    /\ rPc = "run"
    /\ NextRemoved = 0
    /\ rIdx <= Len(rNew)
    /\ rNew[rIdx].key # 0
    /\ ~Differs(rNew[rIdx], OldOf(rNew[rIdx].key))
    /\ rIdx' = rIdx + 1
    /\ rLast' = [op |-> "skip", err |-> "", spec |-> <<>>,
                 old |-> OldOf(rNew[rIdx].key), new |-> rNew[rIdx],
                 before |-> rL]
    /\ UNCHANGED <<rInv, rL, rOld, rNew, rSpecs, rPc, rDel, rErr, rPass>>
    /\ UNCHANGED <<assignVars, cloneVars, subVars>>

\* Every entry handled: the updated list and the batch are returned.
RecReturn ==
    /\ rPc = "run"
    /\ NextRemoved = 0
    /\ rIdx > Len(rNew)
    /\ rPc' = "done"
    /\ UNCHANGED <<rInv, rL, rOld, rNew, rSpecs, rDel, rIdx, rErr, rPass,
                   rLast>>
    /\ UNCHANGED <<assignVars, cloneVars, subVars>>

\* The key the remote system gives a network interface: 4000 for unit 7,
\* 4001 for unit 8, and so on.
ServerKey(device) ==
    IF device.unitNumber = NoUnit THEN 4000 + PciUnitCount
    ELSE 4000 + device.unitNumber[1] - PciDeviceOffset

\* The device as the remote system stores an added one: a positive key and,
\* unless the MAC address is manual, a generated one.
ServerAdded(device) ==
    LET d == [device EXCEPT !.key = ServerKey(device)] IN
    IF d.addressType = "manual" THEN d
    ELSE [d EXCEPT !.macAddress = "00:50:56:00:00:01",
                   !.addressType = IF d.addressType = "" THEN "assigned"
                                   ELSE d.addressType]

\* The device as the remote system stores an edited one.
ServerEdited(device) ==
    IF device.addressType # "manual" /\ device.macAddress = ""
    THEN [device EXCEPT !.macAddress = "00:50:56:00:00:01"]
    ELSE device

\* Remote apply sink: the whole batch applied to the inventory.
RECURSIVE ServerApply(_, _)
ServerApply(inv, specs) ==
    IF specs = <<>> THEN inv
    ELSE LET c == Head(specs)
             i1 == CASE c.operation = "remove" -> Excise(inv, c.device.key)
                     [] c.operation = "add" -> Append(inv, ServerAdded(c.device))
                     [] OTHER -> ReplaceDevice(inv, ServerEdited(c.device))
         IN  ServerApply(i1, Tail(specs))

\* The persisted key after the apply: a placeholder key is replaced by the
\* key the remote system gave the device.
Rebind(entry, working) ==
    IF entry.key >= 0 THEN entry
    ELSE LET n == FindVirtualDevice(working, entry)
         IN  IF n = 0 THEN entry
             ELSE [entry EXCEPT !.key = ServerKey(working[n])]

MaxPasses == 2

\* The batch of a successful pass is applied remotely, the inventory is read
\* again and every entry refreshed from it; the next pass starts from there
\* with the declared attributes unchanged.
RemoteApply ==
    /\ rPc = "done"
    /\ rPass < MaxPasses
    /\ LET inv == ServerApply(rInv, rSpecs)
           new == [i \in 1..Len(rNew) |-> Rebind(rNew[i], rL)]
           reads == [i \in 1..Len(new) |-> Read(inv, new[i])]
       IN  /\ rInv' = inv
           /\ rL' = inv
           /\ rNew' = new
           /\ rOld' = [i \in 1..Len(new) |-> reads[i].data]
           /\ IF \E i \in 1..Len(new) : reads[i].err # ""
              THEN rPc' = "failed" /\ rErr' = "RefreshFailed"
              ELSE rPc' = "run" /\ rErr' = ""
    /\ rSpecs' = <<>>
    /\ rDel' = 1
    /\ rIdx' = 1
    /\ rPass' = rPass + 1
    /\ rLast' = NoOperation
    /\ UNCHANGED <<assignVars, cloneVars, subVars>>

(***************************************************************************)
(* Inventories and declared lists                                           *)
(***************************************************************************)
\* The devices every virtual machine has besides its network interfaces: the
\* PCI controller, a SCSI controller and the video card on it, a disk on
\* the SCSI controller and the VMCI device.
OtherDevice(type, key, ckey, unit) ==
    [NewDevice(type) EXCEPT !.key = key, !.controllerKey = ckey,
                            !.unitNumber = unit]

BaseInventory ==
    << OtherDevice("pci", 100, 0, NoUnit),
       OtherDevice("video", 500, 100, <<0>>),
       OtherDevice("scsi", 1000, 100, <<3>>),
       OtherDevice("disk", 2000, 1000, <<8>>),
       OtherDevice("vmci", 12000, 100, <<17>>) >>

\* The i-th network interface of an existing machine, as a previous pass
\* and apply left it: odd ones e1000 with an assigned MAC address, even ones
\* vmxnet3 with a manual one.
ExistingNic(i) ==
    [NewDevice(IF i % 2 = 1 THEN "e1000" ELSE "vmxnet3") EXCEPT
        !.key = 4000 + i - 1,
        !.controllerKey = 100,
        !.unitNumber = <<PciDeviceOffset + i - 1>>,
        !.backing = KnownBackings["network-A"],
        !.addressType = IF i % 2 = 1 THEN "assigned" ELSE "manual",
        !.macAddress = IF i % 2 = 1 THEN "00:50:56:00:00:01"
                       ELSE "aa:aa:aa:aa:aa:aa",
        !.alloc = <<[limit |-> -1, reservation |-> 0, shares |-> 0,
                     level |-> "normal"]>>,
        !.connected = TRUE]

Changes == {"keep", "drop", "adapter", "network", "static", "bandwidth"}

\* The declared entry for an existing interface after a configuration change.
Changed(e, c) ==
    CASE c = "adapter" ->
            [e EXCEPT !.adapter_type = IF @ = "e1000" THEN "vmxnet3" ELSE "e1000"]
      [] c = "network" -> [e EXCEPT !.network_id = "network-B"]
      [] c = "static" ->
            IF e.use_static_mac
            THEN [e EXCEPT !.use_static_mac = FALSE, !.mac_address = ""]
            ELSE [e EXCEPT !.use_static_mac = TRUE,
                           !.mac_address = "bb:bb:bb:bb:bb:bb"]
      [] c = "bandwidth" ->
            [e EXCEPT !.bandwidth_limit = 100, !.bandwidth_share_level = "high"]
      [] OTHER -> e

\* Entries for interfaces to create.
FreshEntries ==
    { DefaultEntry,
      [DefaultEntry EXCEPT !.adapter_type = "vmxnet3",
                           !.network_id = "dvportgroup-1",
                           !.use_static_mac = TRUE,
                           !.mac_address = "cc:cc:cc:cc:cc:cc",
                           !.bandwidth_share_level = "high"] }

UnresolvableEntry == [DefaultEntry EXCEPT !.network_id = "network-gone"]

MaxExisting == 3

MaxNew == 2

\* Start of a pass: the inventory, the entries persisted by the last
\* refresh, and the declared list.
StartPass(inv, old, new) ==
    /\ rInv = inv /\ rL = inv /\ rOld = old /\ rNew = new
    /\ rSpecs = <<>> /\ rPc = "run" /\ rDel = 1 /\ rIdx = 1
    /\ rErr = "" /\ rPass = 1 /\ rLast = NoOperation

PersistedEntries(inv, n) ==
    [i \in 1..n |-> Read(inv, [DefaultEntry EXCEPT !.key = 4000 + i - 1]).data]

\* The entries to create: the pass ends at an entry whose network does not
\* resolve, so such an entry is declared last (SpecDrift has the failures
\* with entries left over).
NewEntries ==
    {f \in SeqsUpTo({DefaultEntry, UnresolvableEntry}, MaxNew) :
        \A i \in 1..(Len(f) - 1) : f[i] = DefaultEntry}

Init ==
    /\ \E n \in 0..MaxExisting :
       \E ch \in [1..n -> Changes] :
       \E fresh \in NewEntries :
          LET inv == BaseInventory \o [i \in 1..n |-> ExistingNic(i)]
              old == PersistedEntries(inv, n)
              all == [i \in 1..n |-> [e |-> Changed(old[i], ch[i]), c |-> ch[i]]]
              kept == SelectSeq(all, LAMBDA x : x.c # "drop")
          IN  StartPass(inv, old,
                        [i \in 1..Len(kept) |-> kept[i].e] \o fresh)
    /\ AssignIdle
    /\ CloneIdle
    /\ SubIdle

Next ==
    \/ RecDelete
    \/ RecCreate
    \/ RecUpdate
    \/ RecSkip
    \/ RecReturn
    \/ RemoteApply

Spec == Init /\ [][Next]_vars

MaxFresh == 11

FreshInit ==
    /\ \E fresh \in SeqsUpTo(FreshEntries, MaxFresh) :
          StartPass(BaseInventory, <<>>, fresh)
    /\ AssignIdle
    /\ CloneIdle
    /\ SubIdle

FreshNext == RecCreate \/ RecReturn

SpecFresh == FreshInit /\ [][FreshNext]_vars

(***************************************************************************)
(* Claims checked under SpecFresh                                           *)
(***************************************************************************)
\* C3: a pass over N <= 10 declared interfaces against an inventory without
\* network interfaces ends without error with exactly N specs, all "add",
\* whose devices have pairwise distinct negative keys and pairwise distinct
\* unit numbers in 7..16 on the PCI controller.
C3_FreshCreatesAddAll ==
    (rPc \in {"done", "failed"} /\ Len(rNew) <= PciUnitCount) =>
        /\ rPc = "done"
        /\ Len(rSpecs) = Len(rNew)
        /\ \A i \in 1..Len(rSpecs) :
              /\ rSpecs[i].operation = "add"
              /\ rSpecs[i].device.key < 0
              /\ rSpecs[i].device.key = rNew[i].key
              /\ rSpecs[i].device.controllerKey = 100
              /\ rSpecs[i].device.unitNumber # NoUnit
              /\ rSpecs[i].device.unitNumber[1] \in
                     PciDeviceOffset..(PciDeviceOffset + PciUnitCount - 1)
        /\ \A i, j \in 1..Len(rSpecs) :
              i # j => /\ rSpecs[i].device.key # rSpecs[j].device.key
                       /\ rSpecs[i].device.unitNumber # rSpecs[j].device.unitNumber

\* C3 witness: a pass over ten declared interfaces returned ten specs.
C3_Witness ==
    /\ rPc = "done" /\ rPass = 1 /\ rOld = <<>>
    /\ Len(rNew) = PciUnitCount /\ Len(rSpecs) = PciUnitCount

\* C28: when the slot allocation fails because the bus is full, the device
\* to attach is as it was before the call (controller key, unit number and
\* key included), and Create returns the error without a change spec, the
\* entry and the working list staying as they were.
C28_FullBusLeavesDevice ==
    (rLast.op = "create" /\ rLast.err = "NoSlots") =>
        /\ rLast.spec = <<>>
        /\ rLast.new = rLast.old
        /\ rSpecs = <<>>
        /\ rL = rLast.before
        /\ LET c == ControllerForCreateUpdate(rLast.before)
               b == EthernetCardBackingInfo(rLast.old.network_id)
               ce == CreateEthernetCard(rLast.old.adapter_type, b.backing)
           IN  \A k \in {ce.device.key, 0} :
                  LET input == [ce.device EXCEPT !.key = k]
                      r == assignEthernetCard(rLast.before, input, c.ctlr.key)
                  IN  r.err = "NoSlots" /\ r.device = input

\* C28 witness: the eleventh Create of a pass found the bus full.
C28_Witness ==
    /\ rPc = "failed" /\ rErr = "NoSlots"
    /\ rLast.op = "create" /\ rLast.err = "NoSlots"
    /\ rIdx = PciUnitCount + 1
    /\ Len(rL) = Len(BaseInventory) + PciUnitCount

(***************************************************************************)
(* Claims checked under Spec                                                *)
(***************************************************************************)
\* C4 (as claimed): an Update whose declared adapter type differs from the
\* current one returns a "remove" spec for the old device followed by an
\* "add" spec for a device of the declared type with the old device's
\* controller key and unit number.
C4_TypeChangeReplacesInSlot ==
    (/\ rLast.op = "update" /\ rLast.err = ""
     /\ rLast.new.adapter_type # rLast.old.adapter_type) =>
        LET dev == rLast.before[FindVirtualDevice(rLast.before, rLast.new)] IN
        /\ Len(rLast.spec) = 2
        /\ rLast.spec[1] = [operation |-> "remove", device |-> dev]
        /\ rLast.spec[2].operation = "add"
        /\ rLast.spec[2].device.controllerKey = dev.controllerKey
        /\ rLast.spec[2].device.unitNumber = dev.unitNumber

\* Every declared entry equals, in every declared attribute, what the last
\* refresh read, and no persisted entry is missing from the declared list.
DeclaredEqualsCurrent ==
    /\ KeysOf(rNew) = KeysOf(rOld)
    /\ \A i \in 1..Len(rNew) : ~Differs(rNew[i], OldOf(rNew[i].key))

\* C5 (as claimed): a pass over a declared list identical to the current
\* state returns no change spec, and so does the pass that follows a
\* successful pass and apply with the declared list unchanged.
C5_SecondPassEmitsNothing ==
    rPc = "done" =>
        /\ DeclaredEqualsCurrent => rSpecs = <<>>
        /\ rPass >= 2 => rSpecs = <<>>

\* Exactly one persisted entry, neither the first nor the last, is missing
\* from the declared list, and the others are declared unchanged.
MiddleRemoved(j) ==
    /\ j > 1 /\ j < Len(rOld)
    /\ Len(rNew) = Len(rOld) - 1
    /\ KeysOf(rNew) = KeysOf(rOld) \ {rOld[j].key}
    /\ \A i \in 1..Len(rNew) : ~Differs(rNew[i], OldOf(rNew[i].key))

DeviceOf(l, key) == l[MinOf({n \in 1..Len(l) : l[n].key = key})]

\* C6: when one entry is removed from the middle of the declared list, the
\* pass returns exactly one spec, a "remove" of the device with the removed
\* key, and the devices of the remaining entries stay in the updated list as
\* they were, key and unit number included.
C6_RemoveMiddleOnlyRemoves ==
    \A j \in 1..Len(rOld) :
        (rPc \in {"done", "failed"} /\ MiddleRemoved(j)) =>
            /\ rPc = "done"
            /\ rSpecs = <<[operation |-> "remove",
                           device |-> DeviceOf(rInv, rOld[j].key)]>>
            /\ \A n \in 1..Len(rL) : rL[n].key # rOld[j].key
            /\ \A i \in 1..Len(rNew) :
                  /\ \E n \in 1..Len(rL) : rL[n].key = rNew[i].key
                  /\ DeviceOf(rL, rNew[i].key) = DeviceOf(rInv, rNew[i].key)

\* C6 witness: a pass finished after the second of three entries was removed.
C6_Witness ==
    /\ rPc = "done" /\ Len(rOld) = 3 /\ MiddleRemoved(2)
    /\ Len(rSpecs) = 1 /\ rSpecs[1].device.key = 4001

(***************************************************************************)
(* SpecSub: one subresource entry and one device list, on which Read,       *)
(* Update, Delete and Create are run.                                       *)
(***************************************************************************)
\* The backings a card can carry: the three kinds Read knows, each one
\* resolvable or not, a legacy backing and no backing at all.
SubBackings ==
    { KnownBackings["network-A"],
      [kind |-> "network", id |-> NilRef],
      KnownBackings["dvportgroup-1"],
      [kind |-> "dvs", id |-> "dvportgroup-gone"],
      KnownBackings["network-o1"],
      [kind |-> "opaque", id |-> "nsx-gone"],
      [kind |-> "legacy", id |-> NilRef],
      NoBacking }

SubTypes == {"e1000", "vmxnet3", "e1000e", "disk"}

\* The key of a device the remote system knows, and the key of a device
\* created earlier in the same pass.
SubKeys == {4000, -201}

\* A device of the list: a known one sits on unit 7 with an assigned MAC
\* address and an allocation, a pending one on unit 8 with neither.
SubDevice(type, key, backing) ==
    IF key >= 0
    THEN [ExistingNic(1) EXCEPT !.type = type, !.key = key,
                                !.backing = backing]
    ELSE [NewDevice(type) EXCEPT !.key = key, !.controllerKey = 100,
                                 !.unitNumber = <<PciDeviceOffset + 1>>,
                                 !.backing = backing, !.connected = TRUE]

\* Lists with or without the PCI controller, with at most one known and at
\* most one pending device.
SubLists ==
    {base \o known \o pending :
        base \in {BaseInventory, <<>>},
        known \in {<<>>} \cup {<<SubDevice(t, 4000, b)>> :
                                  t \in SubTypes, b \in SubBackings},
        pending \in {<<>>} \cup {<<SubDevice(t, -201, KnownBackings["network-A"])>> :
                                    t \in {"vmxnet3", "disk"}}}

\* The entry as last persisted, and as declared after one change.
SubPersisted ==
    {[DefaultEntry EXCEPT !.key = k] : k \in SubKeys} \cup
    {[DefaultEntry EXCEPT !.key = k, !.use_static_mac = TRUE,
                          !.mac_address = "aa:aa:aa:aa:aa:aa"] : k \in SubKeys}

SubInit ==
    /\ sL \in SubLists
    /\ sOld \in SubPersisted
    /\ sNew \in {Changed(sOld, c) : c \in Changes \ {"drop"}}
    /\ sRes = NoSubResult
    /\ AssignIdle
    /\ CloneIdle
    /\ ReconcileIdle

SubRead ==
    /\ LET r == Read(sL, sOld)
       IN  sRes' = [op |-> "read", err |-> r.err, spec |-> <<>>,
                    data |-> r.data, api |-> ""]
    /\ UNCHANGED <<sL, sOld, sNew>>
    /\ UNCHANGED <<assignVars, cloneVars, recVars>>

SubUpdate ==
    /\ \E api \in ApiTypes :
        LET r == Update(sL, sOld, sNew, api)
        IN  sRes' = [op |-> "update", err |-> r.err, spec |-> r.spec,
                     data |-> sNew, api |-> api]
    /\ UNCHANGED <<sL, sOld, sNew>>
    /\ UNCHANGED <<assignVars, cloneVars, recVars>>

SubDelete ==
    /\ LET r == Delete(sL, sOld)
       IN  sRes' = [op |-> "delete", err |-> r.err, spec |-> r.spec,
                    data |-> sOld, api |-> ""]
    /\ UNCHANGED <<sL, sOld, sNew>>
    /\ UNCHANGED <<assignVars, cloneVars, recVars>>

SubCreate ==
    /\ LET r == Create(sL, sNew)
       IN  sRes' = [op |-> "create", err |-> r.err, spec |-> r.spec,
                    data |-> r.data, api |-> ""]
    /\ UNCHANGED <<sL, sOld, sNew>>
    /\ UNCHANGED <<assignVars, cloneVars, recVars>>

\* The Update that follows a refresh: the entry Read wrote is the old state,
\* the declared entry the new one, and they differ.
SubUpdateAfterRead ==
    /\ sRes.op = "read" /\ sRes.err = ""
    /\ Differs(sNew, sRes.data)
    /\ \E api \in ApiTypes :
        LET r == Update(sL, sRes.data, sNew, api)
        IN  sRes' = [op |-> "updateAfterRead", err |-> r.err, spec |-> r.spec,
                     data |-> sNew, api |-> api]
    /\ UNCHANGED <<sL, sOld, sNew>>
    /\ UNCHANGED <<assignVars, cloneVars, recVars>>

\* The Read that follows a Create: the created device has joined the list,
\* and the entry is the one Create saved the key in.
SubReadAfterCreate ==
    /\ sRes.op = "create" /\ sRes.err = ""
    /\ LET r == Read(ApplyDeviceChange(sL, sRes.spec), sRes.data)
       IN  sRes' = [op |-> "readAfterCreate", err |-> r.err,
                    spec |-> sRes.spec, data |-> r.data, api |-> ""]
    /\ UNCHANGED <<sL, sOld, sNew>>
    /\ UNCHANGED <<assignVars, cloneVars, recVars>>

SubNext ==
    \/ SubRead
    \/ SubUpdate
    \/ SubDelete
    \/ SubCreate
    \/ SubUpdateAfterRead
    \/ SubReadAfterCreate

SpecSub == SubInit /\ [][SubNext]_vars

(***************************************************************************)
(* Claims checked under SpecSub                                             *)
(***************************************************************************)
\* The persisted key of the entry is the key of a device of the list.
KeyPresent(l, data) == \E n \in 1..Len(l) : l[n].key = data.key

\* C11: Delete of an entry whose persisted key is the key of a network
\* interface of the list returns exactly one spec, a "remove" carrying that
\* device; when no device of the list has the key it returns the
\* device-not-found error and no spec.  Delete never succeeds without a spec.
C11_DeleteRemovesOrNotFound ==
    sRes.op = "delete" =>
        /\ (KeyPresent(sL, sOld) /\ IsEthernetCard(DeviceOf(sL, sOld.key))) =>
              /\ sRes.err = ""
              /\ sRes.spec = <<[operation |-> "remove",
                                device |-> DeviceOf(sL, sOld.key)]>>
        /\ ~KeyPresent(sL, sOld) =>
              /\ sRes.err = "DeviceNotFound"
              /\ sRes.spec = <<>>
        /\ sRes.err = "" => Len(sRes.spec) = 1

\* C11 witness: Delete ran on a list that has other network interfaces but
\* none with the entry's key, and failed.
C11_Witness ==
    /\ sRes.op = "delete" /\ sRes.err = "DeviceNotFound"
    /\ ~KeyPresent(sL, sOld)
    /\ \E n \in 1..Len(sL) : IsEthernetCard(sL[n])

\* The device the entry's key names is a network interface whose backing
\* Read knows and resolves to a network.
BackingResolves(l, data) ==
    /\ KeyPresent(l, data)
    /\ IsEthernetCard(DeviceOf(l, data.key))
    /\ DeviceOf(l, data.key).backing \in
           {KnownBackings[id] : id \in DOMAIN KnownBackings}

\* C12: Read of an entry whose persisted key no device of the list has fails
\* with the device-not-found error; when the key names a network interface
\* with a backing Read recognizes, Read succeeds and the entry's key is the
\* key of that device.
C12_ReadNotFoundOrKeySet ==
    sRes.op = "read" =>
        /\ ~KeyPresent(sL, sOld) => sRes.err = "DeviceNotFound"
        /\ BackingResolves(sL, sOld) =>
              /\ sRes.err = ""
              /\ sRes.data.key = DeviceOf(sL, sOld.key).key

\* C12 witness: Read succeeded for the key of a device created earlier in
\* the pass, on a list that also holds a device the remote system knows.
C12_Witness ==
    /\ sRes.op = "read"
    /\ BackingResolves(sL, sOld)
    /\ sRes.err = "" /\ sRes.data.key = -201
    /\ \E n \in 1..Len(sL) : sL[n].key = 4000

\* C13: Read of a network interface dispatches on the kind of the backing.
\* A standard network gives its reference, an opaque network the reference
\* of the network with that NSX id, a distributed port the reference of its
\* port group; a standard backing without a reference fails and leaves
\* network_id as it was; any other backing, a missing one included, fails
\* with the unknown-backing error.
C13_ReadDispatchesOnBacking ==
    (/\ sRes.op = "read" /\ KeyPresent(sL, sOld)
     /\ IsEthernetCard(DeviceOf(sL, sOld.key))) =>
        LET b == DeviceOf(sL, sOld.key).backing IN
        CASE b.kind = "network" /\ b.id # NilRef ->
                sRes.err = "" /\ sRes.data.network_id = b.id
          [] b.kind = "network" /\ b.id = NilRef ->
                /\ sRes.err = "NoNetworkInformation"
                /\ sRes.data.network_id = sOld.network_id
          [] b.kind = "opaque" ->
                IF b.id = "nsx-1"
                THEN sRes.err = "" /\ sRes.data.network_id = "network-o1"
                ELSE sRes.err = "OpaqueNetworkNotFound"
          [] b.kind = "dvs" ->
                IF b.id = "dvportgroup-1"
                THEN sRes.err = "" /\ sRes.data.network_id = "dvportgroup-1"
                ELSE sRes.err = "PortgroupNotFound"
          [] OTHER -> sRes.err = "UnknownBacking"

\* C13 witness: Read failed on a network interface without a backing.
C13_Witness ==
    /\ sRes.op = "read" /\ sRes.err = "UnknownBacking"
    /\ KeyPresent(sL, sOld)
    /\ DeviceOf(sL, sOld.key).backing = NoBacking

\* C14: the last spec Update returns is an "add" when its device has a
\* negative key and an "edit" otherwise; an "edit" never carries a device
\* with a negative key.
C14_UpdateAddsNegativeKey ==
    (sRes.op = "update" /\ sRes.err = "") =>
        /\ sRes.spec # <<>>
        /\ LET last == sRes.spec[Len(sRes.spec)] IN
           /\ last.device.key < 0 => last.operation = "add"
           /\ last.device.key >= 0 => last.operation = "edit"

\* C14 witness: Update ran on a device created earlier in the pass.
C14_Witness ==
    /\ sRes.op = "update" /\ sRes.err = ""
    /\ sNew.key = -201
    /\ sRes.spec[Len(sRes.spec)].device.key = -201
    /\ sRes.spec[Len(sRes.spec)].operation = "add"

\* C23: the device of the final change spec of a successful Update carries
\* the declared bandwidth limit, reservation, share level and share count as
\* its resource allocation.  Its MAC settings are those of the live device
\* unless use_static_mac changed: changed to static, the address type is
\* "manual" and the address the declared one; changed away from static, the
\* address is cleared and the address type is "assigned" on a vCenter
\* endpoint and "generated" on any other.
C23_UpdateSetsAllocationAndMac ==
    (sRes.op = "update" /\ sRes.err = "") =>
        LET d == sRes.spec[Len(sRes.spec)].device
            live == DeviceOf(sL, sNew.key)
            changed == sOld.use_static_mac # sNew.use_static_mac
        IN  /\ d.alloc = <<[limit |-> sNew.bandwidth_limit,
                            reservation |-> sNew.bandwidth_reservation,
                            shares |-> sNew.bandwidth_share_count,
                            level |-> sNew.bandwidth_share_level]>>
            /\ ~changed => /\ d.addressType = live.addressType
                           /\ d.macAddress = live.macAddress
            /\ (changed /\ sNew.use_static_mac)
                  => /\ d.addressType = "manual"
                     /\ d.macAddress = sNew.mac_address
            /\ (changed /\ ~sNew.use_static_mac)
                  => /\ d.macAddress = ""
                     /\ d.addressType = IF sRes.api = "VirtualCenter"
                                        THEN "assigned" ELSE "generated"

\* C23 witness: an Update on an endpoint that is not vCenter took an
\* interface with an assigned address away from a static MAC address.
C23_Witness ==
    /\ sRes.op = "update" /\ sRes.err = "" /\ sRes.api = "HostAgent"
    /\ sOld.use_static_mac /\ ~sNew.use_static_mac
    /\ DeviceOf(sL, sNew.key).addressType = "assigned"
    /\ sRes.spec[Len(sRes.spec)].device.addressType = "generated"
    /\ sRes.spec[Len(sRes.spec)].device.macAddress = ""

\* The live device the entry names is a network interface of a type other
\* than e1000 and vmxnet3.
UnsupportedLive ==
    /\ KeyPresent(sL, sOld)
    /\ IsEthernetCard(DeviceOf(sL, sOld.key))
    /\ DeviceOf(sL, sOld.key).type \notin {"e1000", "vmxnet3"}

\* C24 (as claimed): a live interface of a type other than e1000 and vmxnet3
\* is read with adapter_type "unknown", Read not failing for the type, and
\* the Update that follows rectifies the type: it removes the existing
\* interface and adds a new one of the declared type.
C24_UnknownTypeRectifiedOnUpdate ==
    /\ (sRes.op = "read" /\ UnsupportedLive)
          => /\ sRes.data.adapter_type = "unknown"
             /\ BackingResolves(sL, sOld) => sRes.err = ""
    /\ (sRes.op = "updateAfterRead" /\ UnsupportedLive)
          => /\ sRes.err = ""
             /\ Len(sRes.spec) = 2
             /\ sRes.spec[1].operation = "remove"
             /\ sRes.spec[1].device = DeviceOf(sL, sOld.key)
             /\ sRes.spec[2].operation = "add"
             /\ sRes.spec[2].device.type = sNew.adapter_type

\* C25: an interface created with adapter type e1000 or vmxnet3, a static
\* MAC flag and bandwidth settings, and then read from the list it joined,
\* is reported with that adapter type, that flag, those bandwidth settings
\* and the key of the created device.
C25_ReadAfterCreateRoundTrip ==
    (sRes.op = "readAfterCreate" /\ sNew.adapter_type \in {"e1000", "vmxnet3"})
        => /\ sRes.err = ""
           /\ sRes.data.adapter_type = sNew.adapter_type
           /\ sRes.data.use_static_mac = sNew.use_static_mac
           /\ sRes.data.bandwidth_limit = sNew.bandwidth_limit
           /\ sRes.data.bandwidth_reservation = sNew.bandwidth_reservation
           /\ sRes.data.bandwidth_share_level = sNew.bandwidth_share_level
           /\ sRes.data.bandwidth_share_count = sNew.bandwidth_share_count
           /\ sRes.data.key = sRes.spec[1].device.key
           /\ sRes.data.key < 0

\* C25 witness: a vmxnet3 interface with a static MAC address, created next
\* to a device pending from earlier in the pass, was read back.
C25_Witness ==
    /\ sRes.op = "readAfterCreate" /\ sRes.err = ""
    /\ sNew.adapter_type = "vmxnet3" /\ sNew.use_static_mac
    /\ \E n \in 1..Len(sL) : sL[n].key = -201
    /\ sRes.data.adapter_type = "vmxnet3" /\ sRes.data.use_static_mac
    /\ sRes.data.key \notin {0, -201}

\* C27 (as claimed): when Read returns an error (device not found, not a
\* network interface, unresolvable or unsupported backing), none of the
\* attributes of the entry has been modified by that Read.
C27_FailedReadLeavesEntry ==
    (sRes.op = "read" /\ sRes.err # "") => sRes.data = sOld

\* C27 (amended): when Read returns the not-found or the not-a-network-
\* interface error, none of the attributes of the entry has been modified;
\* when it returns an error for the backing (no network information, a
\* network that does not resolve, an unsupported backing), adapter_type has
\* been set from the type of the live device and no other attribute has
\* been modified.
C27_FailedReadWritesAtMostAdapterType ==
    (sRes.op = "read" /\ sRes.err # "") =>
        IF sRes.err \in {"DeviceNotFound", "NotNetworkDevice"}
        THEN sRes.data = sOld
        ELSE sRes.data =
                [sOld EXCEPT !.adapter_type =
                                 AdapterTypeOf(DeviceOf(sL, sOld.key))]

\* C27 witness: Read of an entry persisted as e1000 failed on the
\* unsupported backing of a live vmxnet3 interface and left the entry with
\* adapter_type vmxnet3.
C27_Witness ==
    /\ sRes.op = "read" /\ sRes.err = "UnknownBacking"
    /\ sOld.adapter_type = "e1000"
    /\ DeviceOf(sL, sOld.key).type = "vmxnet3"
    /\ sRes.data.adapter_type = "vmxnet3"
    /\ sRes.data.network_id = sOld.network_id

(***************************************************************************)
(* Claims on the order and the outcome of a pass, checked under Spec        *)
(***************************************************************************)
\* The persisted entries the declared list dropped, in persisted order.
Dropped == SelectSeq(rOld, LAMBDA e : e.key \notin KeysOf(rNew))

\* The declared entries a finished pass created or updated, in declared
\* order: a created one carries the placeholder key Create saved.
Emitters ==
    SelectSeq(rNew, LAMBDA e : e.key < 0 \/ Differs(e, OldOf(e.key)))

\* The inventory of the start of the pass without the dropped devices.
AfterDrops == SelectSeq(rInv, LAMBDA d : d.key \in KeysOf(rNew) \/ ~IsEthernetCard(d))

\* The number of created entries among the first j emitters.
CreatedUpTo(j) == Cardinality({i \in 1..j : Emitters[i].key < 0})

\* The n-th lowest element of a set of numbers.
RECURSIVE NthLowest(_, _)
NthLowest(S, n) == IF n = 1 THEN MinOf(S) ELSE NthLowest(S \ {MinOf(S)}, n - 1)

\* C15: the batch a pass returns holds first a "remove" for each dropped
\* device, then one spec for each created or updated entry in declared order.
\* Keys and unit numbers are fixed by the starting inventory and the declared
\* list alone: the n-th created device has key -200 - n and the n-th lowest
\* unit free after the removals, an updated device keeps its key and unit;
\* hence two passes on the same inputs return the same sequence.
C15_RemovesFirstThenDeclaredOrder ==
    rPc = "done" =>
        /\ Len(rSpecs) = Len(Dropped) + Len(Emitters)
        /\ \A i \in 1..Len(Dropped) :
              rSpecs[i] = [operation |-> "remove",
                           device |-> DeviceOf(rInv, Dropped[i].key)]
        /\ \A j \in 1..Len(Emitters) :
              LET c == rSpecs[Len(Dropped) + j]
                  e == Emitters[j]
              IN  /\ c.device.key = e.key
                  /\ c.device.controllerKey = 100
                  /\ IF e.key < 0
                     THEN /\ c.operation = "add"
                          /\ e.key = -200 - CreatedUpTo(j)
                          /\ c.device.unitNumber =
                                 <<NthLowest(FreeUnits(AfterDrops, 100),
                                             CreatedUpTo(j))>>
                     ELSE /\ c.operation = "edit"
                          /\ c.device.unitNumber =
                                 DeviceOf(rInv, e.key).unitNumber

\* C15 witness: a pass that dropped the first interface, updated the third
\* and created two returned remove, edit, add, add, the first created device
\* taking the unit the dropped one freed.
C15_Witness ==
    /\ rPc = "done" /\ rPass = 1
    /\ Len(rOld) = 3 /\ Len(rSpecs) = 4
    /\ rSpecs[1].operation = "remove" /\ rSpecs[1].device.key = 4000
    /\ rSpecs[2].operation = "edit" /\ rSpecs[2].device.key = 4002
    /\ rSpecs[3].operation = "add" /\ rSpecs[3].device.unitNumber = <<7>>
    /\ rSpecs[4].operation = "add" /\ rSpecs[4].device.unitNumber = <<10>>

\* Every key is non-zero, no two devices share a key, and no two devices of
\* one controller share a unit number.
WellFormed(l) ==
    /\ \A n \in 1..Len(l) : l[n].key # 0
    /\ \A i, j \in 1..Len(l) : i # j => l[i].key # l[j].key
    /\ SlotsUnique(l)

\* C19: from a starting list with non-zero unique keys and unique unit
\* numbers per controller, the working list has the same three properties
\* after every Create, Update and Delete of a pass.
C19_WorkingListWellFormed ==
    (rPc # "idle" /\ WellFormed(rInv)) => WellFormed(rL)

\* C19 witness: a finished pass that removed one interface, edited one and
\* created two, on a starting list that was well formed.
C19_Witness ==
    /\ rPc = "done" /\ WellFormed(rInv)
    /\ \E i \in 1..Len(rSpecs) : rSpecs[i].operation = "remove"
    /\ \E i \in 1..Len(rSpecs) : rSpecs[i].operation = "edit"
    /\ Cardinality({i \in 1..Len(rSpecs) : rSpecs[i].operation = "add"}) = 2

\* C20 (as claimed): once the batch of a successful pass is applied to the
\* starting list, a Read of every declared interface reports the declared
\* network_id, adapter_type, use_static_mac (with mac_address when static)
\* and bandwidth limit, reservation, share level and share count, whatever
\* attributes the declared configuration changed.
C20_ApplyConverges ==
    (rPass >= 2 /\ rPc \in {"run", "done"}) =>
        /\ Len(rOld) = Len(rNew)
        /\ \A i \in 1..Len(rNew) :
              /\ rOld[i].key = rNew[i].key
              /\ ~Differs(rNew[i], rOld[i])

\* The declared list of the first pass is the persisted list, unchanged,
\* followed by at least one entry without a persisted key whose network
\* resolves.
AppendOnly ==
    /\ rPass = 1
    /\ KeysOf(rOld) \subseteq KeysOf(rNew)
    /\ \E i \in 1..Len(rNew) : rNew[i].key <= 0
    /\ \A i \in 1..Len(rNew) :
          IF rNew[i].key > 0
          THEN ~Differs(rNew[i], OldOf(rNew[i].key))
          ELSE rNew[i].network_id \in DOMAIN KnownBackings

\* The declared entries the pass found without a key.
Appended == SelectSeq(rNew, LAMBDA e : e.key <= 0)

\* C21: when entries are appended to a declared list whose existing entries
\* are unchanged, the pass returns one "add" per appended entry and no
\* "remove"; each appended entry holds the key of its new device, which
\* sits in the working list on a unit of its own; the devices of the
\* existing entries keep key and unit number.  After a successful apply
\* every declared entry names a device of the inventory.
C21_AppendOnlyAdds ==
    /\ (rPc \in {"done", "failed"} /\ AppendOnly) =>
          /\ rPc = "done"
          /\ Len(rSpecs) = Len(Appended)
          /\ \A j \in 1..Len(Appended) :
                /\ rSpecs[j].operation = "add"
                /\ Appended[j].key < 0
                /\ rSpecs[j].device.key = Appended[j].key
                /\ KeyPresent(rL, Appended[j])
                /\ DeviceOf(rL, Appended[j].key) = rSpecs[j].device
                /\ rSpecs[j].device.unitNumber # NoUnit
          /\ WellFormed(rL)
          /\ \A i \in 1..Len(rOld) :
                /\ KeyPresent(rL, rOld[i])
                /\ DeviceOf(rL, rOld[i].key) = DeviceOf(rInv, rOld[i].key)
    /\ (rPass >= 2 /\ rPc # "failed") =>
          \A i \in 1..Len(rNew) : KeyPresent(rInv, rNew[i])

\* C21 witness: a list of one interface grew to three and the pass returned
\* two "add" specs, on units 8 and 9.
C21_Witness ==
    /\ rPc = "done" /\ AppendOnly
    /\ Len(rOld) = 1 /\ Len(rNew) = 3
    /\ Len(rSpecs) = 2
    /\ rSpecs[1].device.unitNumber = <<8>>
    /\ rSpecs[2].device.unitNumber = <<9>>

\* C30 (as claimed): after an Update for a changed adapter type, which
\* replaces the device, the key persisted in the entry identifies the
\* replacement device, of the declared type, and not the removed one; Read,
\* Update and Delete of the entry against the updated list find a device and
\* do not fail with the device-not-found error.
C30_ReplacedEntryKeyFollowsDevice ==
    (/\ rLast.op = "update" /\ rLast.err = ""
     /\ rLast.new.adapter_type # rLast.old.adapter_type) =>
        LET updated == ApplyDeviceChange(rLast.before, rLast.spec)
            removed == DeviceOf(rLast.before, rLast.new.key)
        IN  /\ KeyPresent(updated, rLast.new)
            /\ DeviceOf(updated, rLast.new.key) # removed
            /\ AdapterTypeOf(DeviceOf(updated, rLast.new.key))
                   = rLast.new.adapter_type
            /\ Read(updated, rLast.new).err # "DeviceNotFound"
            /\ Delete(updated, rLast.new).err # "DeviceNotFound"
            /\ \A api \in ApiTypes :
                  Update(updated, rLast.new, rLast.new, api).err
                      # "DeviceNotFound"

(***************************************************************************)
(* SpecDrift: reconcile passes over an inventory from which one persisted   *)
(* interface may have been removed behind the provider's back.              *)
(***************************************************************************)
MaxDrifted == 2

DriftInit ==
    /\ \E n \in 1..MaxDrifted :
       \E gone \in 0..n :
       \E ch \in [1..n -> Changes] :
       \E fresh \in SeqsUpTo({DefaultEntry, UnresolvableEntry}, 1) :
          LET full == BaseInventory \o [i \in 1..n |-> ExistingNic(i)]
              inv == SelectSeq(full, LAMBDA d : gone = 0 \/ d.key # 4000 + gone - 1)
              old == PersistedEntries(full, n)
              all == [i \in 1..n |-> [e |-> Changed(old[i], ch[i]), c |-> ch[i]]]
              kept == SelectSeq(all, LAMBDA x : x.c # "drop")
          IN  StartPass(inv, old,
                        [i \in 1..Len(kept) |-> kept[i].e] \o fresh)
    /\ AssignIdle
    /\ CloneIdle
    /\ SubIdle

SpecDrift == DriftInit /\ [][Next]_vars

(***************************************************************************)
(* Claims checked under SpecDrift                                           *)
(***************************************************************************)
\* The pass ended on the error of a subresource call.
PassFailed == rPc = "failed" /\ rLast.op \in {"delete", "create", "update"}

\* C16: the first error of a Create, Update or Delete ends the pass: the
\* call returned no spec with its error, the pass returns the error and no
\* spec, the working list is as the failing call found it, the entries after
\* the failing one are untouched, and nothing runs after the failure.
C16_FailFast ==
    /\ [](PassFailed =>
            /\ rLast.err # "" /\ rLast.spec = <<>>
            /\ rErr = rLast.err
            /\ rSpecs = <<>>
            /\ rL = rLast.before
            /\ \A i \in (rIdx + 1)..Len(rNew) :
                  /\ rNew[i].key <= 0 => rNew[i].key = 0
                  /\ rNew[i].key > 0 =>
                        \A n \in 1..Len(rL) :
                            rL[n].key = rNew[i].key => rL[n] \in
                                {rInv[m] : m \in 1..Len(rInv)})
    /\ [][PassFailed => UNCHANGED recVars]_vars

\* C16 witness: the second interface was gone when its entry was updated,
\* after the first entry had been updated and its spec put in the batch.
C16_Witness ==
    /\ PassFailed /\ rLast.op = "update" /\ rErr = "DeviceNotFound"
    /\ rIdx = 2 /\ Len(rNew) = 3
    /\ rLast.before # rInv
    /\ rSpecs = <<>>

(***************************************************************************)
(* SpecBasic: the creation of a machine with disks and network interfaces.  *)
(* The disks are reconciled first; the network-interface pass starts from   *)
(* the list and the batch the disk pass left.                               *)
(***************************************************************************)
\* The devices of a machine about to be created: the default devices, no
\* disk and no network interface.
EmptyInventory == SelectSeq(BaseInventory, LAMBDA d : d.type # "disk")

\* Disk subresource Create: a disk with a new placeholder key on the lowest
\* free unit of the SCSI controller, unit 7 being the controller's own.
DiskCreate(l, size) ==
    LET ckey == 1000
        held == {l[n].unitNumber[1] : n \in {m \in 1..Len(l) :
                     l[m].controllerKey = ckey /\ l[m].unitNumber # NoUnit}}
        unit == MinOf((0..15) \ (held \cup {7}))
        disk == [NewDevice("disk") EXCEPT !.key = NewKey(l),
                                          !.controllerKey = ckey,
                                          !.unitNumber = <<unit>>,
                                          !.backing = [kind |-> "flat", id |-> size]]
    IN  ConfigSpec(disk, "add")

\* The disk pass over declared disks without keys: working list and batch.
RECURSIVE DiskApplyOperation(_, _, _)
DiskApplyOperation(l, specs, sizes) ==
    IF sizes = <<>> THEN [l |-> l, specs |-> specs]
    ELSE LET c == DiskCreate(l, Head(sizes))
         IN  DiskApplyOperation(ApplyDeviceChange(l, c), specs \o c, Tail(sizes))

\* Sizes of the declared disks, kept as the text of the backing.
DiskSizes == {"20G", "40G"}

MaxDisks == 2

MaxBasicNics == 3

BasicInit ==
    /\ \E sizes \in SeqsUpTo(DiskSizes, MaxDisks) :
       \E nics \in SeqsUpTo(FreshEntries, MaxBasicNics) :
          LET d == DiskApplyOperation(EmptyInventory, <<>>, sizes)
          IN  /\ rInv = EmptyInventory /\ rL = d.l /\ rSpecs = d.specs
              /\ rOld = <<>> /\ rNew = nics
              /\ rPc = "run" /\ rDel = 1 /\ rIdx = 1
              /\ rErr = "" /\ rPass = 1 /\ rLast = NoOperation
    /\ AssignIdle
    /\ CloneIdle
    /\ SubIdle

SpecBasic == BasicInit /\ [][FreshNext]_vars

(***************************************************************************)
(* Claims checked under SpecBasic                                           *)
(***************************************************************************)
\* The disks the disk pass created, as the working list holds them.
PendingDisks == SelectSeq(rL, LAMBDA d : d.type = "disk" /\ d.key < 0)

\* C18: a declared list of one disk and one network interface against a
\* machine without disks and interfaces returns two specs, both "add", the
\* first for the disk and the second for the interface, with distinct
\* negative keys, the interface's being the key persisted in its entry, and
\* the interface on unit 7 of the PCI controller.
C18_DiskAndNicFromEmpty ==
    (/\ rPc \in {"done", "failed"}
     /\ Len(PendingDisks) = 1 /\ Len(rNew) = 1) =>
        /\ rPc = "done"
        /\ Len(rSpecs) = 2
        /\ rSpecs[1].operation = "add" /\ rSpecs[2].operation = "add"
        /\ rSpecs[1].device = PendingDisks[1]
        /\ rSpecs[1].device.key < 0 /\ rSpecs[2].device.key < 0
        /\ rSpecs[1].device.key # rSpecs[2].device.key
        /\ rNew[1].key = rSpecs[2].device.key
        /\ IsEthernetCard(rSpecs[2].device)
        /\ rSpecs[2].device.controllerKey = 100
        /\ rSpecs[2].device.unitNumber = <<PciDeviceOffset>>

\* C18 witness: the pass over one disk of 20 GB and one interface on
\* network-A finished.
C18_Witness ==
    /\ rPc = "done" /\ Len(PendingDisks) = 1 /\ Len(rNew) = 1
    /\ PendingDisks[1].backing.id = "20G"
    /\ Len(rSpecs) = 2
    /\ rSpecs[2].device.backing = KnownBackings["network-A"]

(***************************************************************************)
(* SpecReuse: a pass over a machine with up to ten network interfaces, the  *)
(* bus full at ten, whose declared list drops some of them and declares new *)
(* ones.                                                                    *)
(***************************************************************************)
MaxFreed == 2

MaxRefill == 2

ReuseInit ==
    /\ \E n \in 1..PciUnitCount :
       \E gone \in {D \in SUBSET (1..n) : Cardinality(D) \in 1..MaxFreed} :
       \E fresh \in SeqsUpTo(FreshEntries, MaxRefill) \ {<<>>} :
          LET inv == BaseInventory \o [i \in 1..n |-> ExistingNic(i)]
              old == PersistedEntries(inv, n)
              kept == SelectSeq(old, LAMBDA e : (e.key - 4000 + 1) \notin gone)
          IN  StartPass(inv, old, kept \o fresh)
    /\ AssignIdle
    /\ CloneIdle
    /\ SubIdle

ReuseNext == RecDelete \/ RecSkip \/ RecCreate \/ RecReturn

SpecReuse == ReuseInit /\ [][ReuseNext]_vars

(***************************************************************************)
(* Claims checked under SpecReuse                                           *)
(***************************************************************************)
\* The units the interfaces dropped from the declared list held.
FreedUnits == {DeviceOf(rInv, Dropped[i].key).unitNumber[1] : i \in 1..Len(Dropped)}

\* The last step was the first Create of the pass, after all the deletes.
FirstCreate ==
    /\ rLast.op = "create"
    /\ \A n \in 1..Len(rLast.before) : rLast.before[n].key >= 0

\* C29: a slot freed within a pass is reusable in the same pass.  After the
\* dropped interfaces are deleted and excised, the next Create succeeds with
\* the lowest free unit of the controller, which is at most the unit of any
\* deleted interface; when one interface is dropped from a full bus of ten,
\* it is exactly the freed unit.
C29_FreedSlotReusedInPass ==
    FirstCreate =>
        /\ \A u \in FreedUnits : u \in FreeUnits(rLast.before, 100)
        /\ rLast.err = ""
        /\ rLast.spec[1].device.controllerKey = 100
        /\ rLast.spec[1].device.unitNumber =
               <<MinOf(FreeUnits(rLast.before, 100))>>
        /\ \A u \in FreedUnits : rLast.spec[1].device.unitNumber[1] <= u
        /\ (Len(rOld) = PciUnitCount /\ Len(Dropped) = 1)
              => \A u \in FreedUnits : rLast.spec[1].device.unitNumber = <<u>>

\* C29 witness: the interface on unit 11 was dropped from a full bus, and
\* the Create that followed took unit 11.
C29_Witness ==
    /\ FirstCreate /\ rLast.err = ""
    /\ Len(rOld) = PciUnitCount
    /\ FreedUnits = {11}
    /\ FreeUnits(rLast.before, 100) = {11}
    /\ rLast.spec[1].device.unitNumber = <<11>>

====
